---- MODULE Spec2Model ----
(***************************************************************************)
(* The in-process Server-Sent-Events broadcaster of the repository:        *)
(* SSEService (the connection registry and the delivery engine) together   *)
(* with the GET /api/sse route handler that registers and unregisters      *)
(* connections.  JavaScript runs every handler to completion on one        *)
(* thread, so each handler, timer callback and public method is one        *)
(* atomic action.                                                          *)
(***************************************************************************)
EXTENDS Integers, Sequences, FiniteSets, TLC

(* ------------------------ configuration, bounds ----------------------- *)
\* this.config.maxClients: the instance is constructed with maxClients 2
maxClients == 2
\* this.config.clientTimeout, in clock units: the instance is constructed
\* with a timeout of one unit of the clock, so that a connection pinged at
\* one clock value is not yet stale at the next one
clientTimeout == 1
\* how many UUIDs randomUUID() hands out in one run
MaxUUID == 3
\* the last value of the clock Date.now()
MaxTime == 2

(* ----------------------------- values --------------------------------- *)
\* userId?: string -- the absent value
NoUser == "undefined"
UserIds == {"u1", "u2"}
\* the callers of the registry on its own: one signed-in user, one anonymous
RegistryUsers == {"u1", NoUser}
UUIDs == 1..MaxUUID
\* "no client id" (an absent optional argument)
NoClient == 0

\* JSON payloads (the `data` of an event)
JNum(n) == [t |-> "num", n |-> n, s |-> "", kv |-> <<>>]
JStr(s) == [t |-> "str", n |-> 0, s |-> s, kv |-> <<>>]
JNull == [t |-> "null", n |-> 0, s |-> "", kv |-> <<>>]
\* an object whose members are key / primitive pairs, in insertion order
JObj(kv) == [t |-> "obj", n |-> 0, s |-> "", kv |-> kv]
\* a value JSON.stringify throws on (a circular structure, a BigInt)
JCircular == [t |-> "circular", n |-> 0, s |-> "", kv |-> <<>>]

\* SSEEvent: id and retry are optional (hasId / hasRetry say whether present)
SSEEvent(hasId, id, event, data, hasRetry, retry) ==
  [hasId |-> hasId, id |-> id, event |-> event, data |-> data,
   hasRetry |-> hasRetry, retry |-> retry]
EventOf(event, data) == SSEEvent(FALSE, "", event, data, FALSE, 0)
NoEvent == EventOf("", JNull)

\* the text of the UUID numbered i
uuidString(i) == "uuid-" \o ToString(i)

\* new Date().toISOString() of clock value t
toISOString(t) == "T" \o ToString(t)

(* ------------------------- JSON.stringify ------------------------------ *)
JSONprimitive(v) ==
  CASE v.t = "num" -> ToString(v.n)
    [] v.t = "str" -> "\"" \o v.s \o "\""
    [] OTHER -> "null"

RECURSIVE JSONmembers(_)
JSONmembers(kv) ==
  IF kv = <<>> THEN ""
  ELSE "\"" \o kv[1][1] \o "\":" \o JSONprimitive(kv[1][2])
       \o (IF Len(kv) > 1 THEN "," ELSE "") \o JSONmembers(Tail(kv))

JSONthrows(v) == v.t = "circular"

JSONstringify(v) ==
  IF v.t = "obj" THEN "{" \o JSONmembers(v.kv) \o "}" ELSE JSONprimitive(v)

(* ----------------------- formatSSEMessage ------------------------------ *)
\* JavaScript truthiness of an optional string / an optional number
TruthyString(present, s) == present /\ s # ""
TruthyNumber(present, n) == present /\ n # 0

RECURSIVE join(_, _)
join(lines, sep) ==
  IF lines = <<>> THEN ""
  ELSE IF Len(lines) = 1 THEN lines[1]
  ELSE lines[1] \o sep \o join(Tail(lines), sep)

\* formatLines with the retry line pushed before the data line
formatLinesRetryFirst(event) ==
  (IF TruthyString(event.hasId, event.id) THEN <<"id: " \o event.id>> ELSE <<>>)
  \o <<"event: " \o event.event>>
  \o (IF TruthyNumber(event.hasRetry, event.retry)
      THEN <<"retry: " \o ToString(event.retry)>> ELSE <<>>)
  \o <<"data: " \o JSONstringify(event.data)>>

\* the lines array built by formatSSEMessage
formatLines(event) ==
  (IF TruthyString(event.hasId, event.id) THEN <<"id: " \o event.id>> ELSE <<>>)
  \o <<"event: " \o event.event>>
  \o <<"data: " \o JSONstringify(event.data)>>
  \o (IF TruthyNumber(event.hasRetry, event.retry)
      THEN <<"retry: " \o ToString(event.retry)>> ELSE <<>>)

formatSSEMessage(event) ==
  IF JSONthrows(event.data) THEN [threw |-> TRUE, text |-> ""]
  ELSE [threw |-> FALSE, text |-> join(formatLines(event), "\n") \o "\n\n"]

(* ------------------------------ state ---------------------------------- *)
(* ------------------- POST /api/sse-broadcast: values ------------------- *)
\* the sources of requests: request.ip || x-forwarded-for || "unknown"
IPs == {"unknown"}
\* rateLimitMap.get(clientIP) === undefined
NoLimit == [count |-> 0, resetTime |-> -1]
\* an id field of a request that is not a UUID string
NotAUuid == 0 - 1
\* a request body: targetClientId and excludeClientId are NoClient when absent
Body(event, data, targetClientId, excludeClientId) ==
  [event |-> event, data |-> data, targetClientId |-> targetClientId,
   excludeClientId |-> excludeClientId]
\* the history record's input when the operation was no request
NoInput == Body("", JNull, NoClient, NoClient)
\* calls per window
RATE_LIMIT == 10
\* 60 * 1000 ms, in units of the clock
RATE_WINDOW == 2
\* the last clock value of the limiter's runs: one window, and time enough
\* after it for an entry to be past its resetTime
RateHorizon == RATE_WINDOW + 1

VARIABLES
  clients,            \* SSEService.clients: the Map's entries in insertion order
  controller,         \* state of each connection's ReadableStreamDefaultController
  isShuttingDown,     \* SSEService.isShuttingDown
  heartbeatInterval,  \* SSEService.heartbeatInterval is set (the timer is armed)
  nextUUID,           \* the next value randomUUID() returns
  welcome,            \* ids whose 200 ms 'connected' timer is pending
  keepAlive,          \* ids whose keep-alive interval (GET /api/sse) is running
  listening,          \* ids whose request.signal still has its abort listener
  now,                \* Date.now()
  issued,             \* history: ids returned by a successful addClient
  removed,            \* history: ids whose entry a removeClient deleted
  rateLimitMap,       \* POST /api/sse-broadcast: rateLimitMap, source -> entry
  acceptedAt,         \* history: per source and clock value, calls let through
  hook,               \* useSSE: the refs, the React state and the timers of one hook
  last                \* history: the operation just run and what it did

vars == <<clients, controller, isShuttingDown, heartbeatInterval, nextUUID,
          welcome, keepAlive, listening, now, issued, removed,
          rateLimitMap, acceptedAt, hook, last>>

\* the state of the broadcast route's rate limiter
limiterVars == <<rateLimitMap, acceptedAt>>

\* what the server's handlers read and write
serverVars == <<clients, controller, isShuttingDown, heartbeatInterval, nextUUID,
                welcome, keepAlive, listening, now, issued, removed, last>>

\* SSEClient
SSEClient(id, userId, lastPing, connectedAt) ==
  [id |-> id, userId |-> userId, lastPing |-> lastPing, connectedAt |-> connectedAt]

\* Array.from(map.keys())
RECURSIVE keys(_)
keys(cs) == IF cs = <<>> THEN <<>> ELSE <<cs[1].id>> \o keys(Tail(cs))

\* map.has(id)
has(cs, id) == \E i \in 1..Len(cs) : cs[i].id = id

\* map.get(id), for an id the map has
get(cs, id) == cs[CHOOSE i \in 1..Len(cs) : cs[i].id = id]

\* map.delete(id): the other entries keep their order
RECURSIVE delete(_, _)
delete(cs, id) ==
  IF cs = <<>> THEN <<>>
  ELSE IF cs[1].id = id THEN delete(Tail(cs), id)
  ELSE <<cs[1]>> \o delete(Tail(cs), id)

\* map.set(id, client) for a key the map may hold: a held key keeps its place
set(cs, client) ==
  IF has(cs, client.id)
  THEN [i \in 1..Len(cs) |-> IF cs[i].id = client.id THEN client ELSE cs[i]]
  ELSE Append(cs, client)

\* controller.desiredSize === null: only an errored stream reports null
\* (a closed one reports 0)
desiredSizeIsNull(c) == c = "errored"

\* controller.enqueue / controller.close throw unless the stream is readable
canCloseOrEnqueue(c) == c = "readable"

(* ---------------------------------------------------------------------- *)
(* A handler runs on a machine record m: the registry and the streams as  *)
(* the handler has changed them so far, what it has done (attempts: the   *)
(* sendToClient calls that found their client; sent: the chunks enqueued; *)
(* closes: the close() calls, closeErrors: those of them that threw and   *)
(* were caught; staleClients: the heartbeat's array, and timedOut: those  *)
(* of it pushed by the timeout test), and the value of the call just      *)
(* returned (ok for a boolean, count for a number).                       *)
(* ---------------------------------------------------------------------- *)
Machine ==
  [clients |-> clients, controller |-> controller, removed |-> removed,
   attempts |-> <<>>, sent |-> <<>>, closes |-> <<>>, closeErrors |-> <<>>,
   staleClients |-> <<>>, timedOut |-> <<>>,
   ok |-> FALSE, count |-> 0]

\* removeClient without this.clients.delete(clientId)
removeClientKeepsEntry(m, clientId) ==
  IF ~has(m.clients, clientId) THEN [m EXCEPT !.ok = FALSE]
  ELSE [m EXCEPT !.controller[clientId] = IF canCloseOrEnqueue(@) THEN "closed" ELSE @,
                 !.closes = Append(@, clientId),
                 !.closeErrors = IF canCloseOrEnqueue(m.controller[clientId])
                                   THEN @ ELSE Append(@, clientId),
                 !.removed = @ \cup {clientId},
                 !.ok = TRUE]

\* removeClient answering true for an id the map does not hold
removeClientAlwaysTrue(m, clientId) ==
  IF ~has(m.clients, clientId) THEN [m EXCEPT !.ok = TRUE]
  ELSE [m EXCEPT !.controller[clientId] = IF canCloseOrEnqueue(@) THEN "closed" ELSE @,
                 !.closes = Append(@, clientId),
                 !.closeErrors = IF canCloseOrEnqueue(m.controller[clientId])
                                   THEN @ ELSE Append(@, clientId),
                 !.clients = delete(@, clientId),
                 !.removed = @ \cup {clientId},
                 !.ok = TRUE]

\* removeClient without the try / catch around close(): a throwing close()
\* leaves the method before the delete
removeClientCloseUncaught(m, clientId) ==
  IF ~has(m.clients, clientId) THEN [m EXCEPT !.ok = FALSE]
  ELSE IF ~canCloseOrEnqueue(m.controller[clientId])
    THEN [m EXCEPT !.closes = Append(@, clientId),
                   !.closeErrors = Append(@, clientId),
                   !.ok = FALSE]
  ELSE [m EXCEPT !.controller[clientId] = "closed",
                 !.closes = Append(@, clientId),
                 !.clients = delete(@, clientId),
                 !.removed = @ \cup {clientId},
                 !.ok = TRUE]

\* removeClient that calls close() for an id it no longer holds
removeClientClosesAgain(m, clientId) ==
  IF ~has(m.clients, clientId)
    THEN [m EXCEPT !.closes = Append(@, clientId),
                   !.closeErrors = Append(@, clientId),
                   !.ok = FALSE]
  ELSE [m EXCEPT
          !.controller[clientId] = IF canCloseOrEnqueue(@) THEN "closed" ELSE @,
          !.closes = Append(@, clientId),
          !.closeErrors = IF canCloseOrEnqueue(m.controller[clientId])
                            THEN @ ELSE Append(@, clientId),
          !.clients = delete(@, clientId),
          !.removed = @ \cup {clientId},
          !.ok = TRUE]

removeClient(m, clientId) ==
  IF ~has(m.clients, clientId) THEN [m EXCEPT !.ok = FALSE]
  ELSE [m EXCEPT
          \* close() closes a readable stream and throws on any other: swallowed
          !.controller[clientId] = IF canCloseOrEnqueue(@) THEN "closed" ELSE @,
          !.closes = Append(@, clientId),
          !.closeErrors = IF canCloseOrEnqueue(m.controller[clientId])
                            THEN @ ELSE Append(@, clientId),
          !.clients = delete(@, clientId),
          !.removed = @ \cup {clientId},
          !.ok = TRUE]

\* sendToClient that answers false on a failed write and leaves the entry
sendToClientNoEvict(m, clientId, event, t) ==
  IF ~has(m.clients, clientId) THEN [m EXCEPT !.ok = FALSE]
  ELSE
    LET m1 == [m EXCEPT !.attempts = Append(@, clientId)]
        msg == formatSSEMessage(event)
    IN IF msg.threw \/ ~canCloseOrEnqueue(m1.controller[clientId])
         THEN [m1 EXCEPT !.ok = FALSE]
       ELSE [m1 EXCEPT
               !.sent = Append(@, <<clientId, msg.text>>),
               !.clients = set(@, [get(@, clientId) EXCEPT !.lastPing = t]),
               !.ok = TRUE]

\* sendToClient that enqueues its chunk twice
sendToClientEnqueuesTwice(m, clientId, event, t) ==
  IF ~has(m.clients, clientId) THEN [m EXCEPT !.ok = FALSE]
  ELSE
    LET m1 == [m EXCEPT !.attempts = Append(@, clientId)]
        msg == formatSSEMessage(event)
    IN IF msg.threw \/ ~canCloseOrEnqueue(m1.controller[clientId])
         THEN [removeClient(m1, clientId) EXCEPT !.ok = FALSE]
       ELSE [m1 EXCEPT
               !.sent = @ \o <<<<clientId, msg.text>>, <<clientId, msg.text>>>>,
               !.clients = set(@, [get(@, clientId) EXCEPT !.lastPing = t]),
               !.ok = TRUE]

\* sendToClient without `client.lastPing = Date.now()`
sendToClientNoTouch(m, clientId, event, t) ==
  IF ~has(m.clients, clientId) THEN [m EXCEPT !.ok = FALSE]
  ELSE
    LET m1 == [m EXCEPT !.attempts = Append(@, clientId)]
        msg == formatSSEMessage(event)
    IN IF msg.threw \/ ~canCloseOrEnqueue(m1.controller[clientId])
         THEN [removeClient(m1, clientId) EXCEPT !.ok = FALSE]
       ELSE [m1 EXCEPT !.sent = Append(@, <<clientId, msg.text>>), !.ok = TRUE]

\* sendToClient that goes on to the write for an id the map does not hold
sendToClientNoLookup(m, clientId, event, t) ==
  LET m1 == [m EXCEPT !.attempts = Append(@, clientId)]
      msg == formatSSEMessage(event)
  IN IF msg.threw \/ ~canCloseOrEnqueue(m1.controller[clientId])
       THEN [removeClient(m1, clientId) EXCEPT !.ok = FALSE]
     ELSE [m1 EXCEPT
             !.sent = Append(@, <<clientId, msg.text>>),
             !.clients = IF has(@, clientId)
                           THEN set(@, [get(@, clientId) EXCEPT !.lastPing = t])
                           ELSE @,
             !.ok = TRUE]

\* sendToClient that stamps connectedAt along with lastPing
sendToClientTouchesConnectedAt(m, clientId, event, t) ==
  IF ~has(m.clients, clientId) THEN [m EXCEPT !.ok = FALSE]
  ELSE
    LET m1 == [m EXCEPT !.attempts = Append(@, clientId)]
        msg == formatSSEMessage(event)
    IN IF msg.threw \/ ~canCloseOrEnqueue(m1.controller[clientId])
         THEN [removeClient(m1, clientId) EXCEPT !.ok = FALSE]
       ELSE [m1 EXCEPT
               !.sent = Append(@, <<clientId, msg.text>>),
               !.clients = set(@, [get(@, clientId) EXCEPT !.lastPing = t,
                                                           !.connectedAt = t]),
               !.ok = TRUE]

sendToClient(m, clientId, event, t) ==
  IF ~has(m.clients, clientId) THEN [m EXCEPT !.ok = FALSE]
  ELSE
    LET m1 == [m EXCEPT !.attempts = Append(@, clientId)]
        msg == formatSSEMessage(event)
    IN IF msg.threw
         THEN [removeClient(m1, clientId) EXCEPT !.ok = FALSE]
       ELSE IF desiredSizeIsNull(m1.controller[clientId])
         THEN [removeClient(m1, clientId) EXCEPT !.ok = FALSE]
       ELSE IF ~canCloseOrEnqueue(m1.controller[clientId])
         THEN [removeClient(m1, clientId) EXCEPT !.ok = FALSE]
       ELSE [m1 EXCEPT
               !.sent = Append(@, <<clientId, msg.text>>),
               !.clients = set(@, [get(@, clientId) EXCEPT !.lastPing = t]),
               !.ok = TRUE]

\* the loop of sendToUser over this.clients.entries(): ks are the keys the
\* iterator has still to visit; an entry deleted meanwhile is not yielded
RECURSIVE sendToUserLoop(_, _, _, _, _)
sendToUserLoop(m, ks, userId, event, t) ==
  IF ks = <<>> THEN m
  ELSE IF ~has(m.clients, ks[1]) THEN sendToUserLoop(m, Tail(ks), userId, event, t)
  ELSE IF get(m.clients, ks[1]).userId = userId
    THEN LET m1 == sendToClient(m, ks[1], event, t)
         IN sendToUserLoop([m1 EXCEPT !.count = IF m1.ok THEN @ + 1 ELSE @],
                           Tail(ks), userId, event, t)
  ELSE sendToUserLoop(m, Tail(ks), userId, event, t)

\* sendToUser without the userId test: every entry is a target
RECURSIVE sendToUserLoopNoFilter(_, _, _, _, _)
sendToUserLoopNoFilter(m, ks, userId, event, t) ==
  IF ks = <<>> THEN m
  ELSE IF ~has(m.clients, ks[1]) THEN sendToUserLoopNoFilter(m, Tail(ks), userId, event, t)
  ELSE LET m1 == sendToClient(m, ks[1], event, t)
       IN sendToUserLoopNoFilter([m1 EXCEPT !.count = IF m1.ok THEN @ + 1 ELSE @],
                                 Tail(ks), userId, event, t)

sendToUserNoFilter(m, userId, event, t) ==
  sendToUserLoopNoFilter([m EXCEPT !.count = 0], keys(m.clients), userId, event, t)

sendToUser(m, userId, event, t) ==
  sendToUserLoop([m EXCEPT !.count = 0], keys(m.clients), userId, event, t)

\* a broadcast loop walking an index over the live entries: after an
\* eviction the entry that moved into the evicted one's place is passed over
RECURSIVE broadcastLoopSkipsAfterEviction(_, _, _, _, _)
broadcastLoopSkipsAfterEviction(m, ks, event, excludeClientId, t) ==
  IF ks = <<>> THEN m
  ELSE IF ~has(m.clients, ks[1])
    THEN broadcastLoopSkipsAfterEviction(m, Tail(ks), event, excludeClientId, t)
  ELSE IF ks[1] # excludeClientId
    THEN LET m1 == sendToClient(m, ks[1], event, t)
         IN IF m1.ok
              THEN broadcastLoopSkipsAfterEviction([m1 EXCEPT !.count = @ + 1],
                                                   Tail(ks), event, excludeClientId, t)
              ELSE broadcastLoopSkipsAfterEviction(
                     m1, IF Len(ks) > 1 THEN Tail(Tail(ks)) ELSE <<>>,
                     event, excludeClientId, t)
  ELSE broadcastLoopSkipsAfterEviction(m, Tail(ks), event, excludeClientId, t)

\* a broadcast loop that a failed write ends
RECURSIVE broadcastLoopStopsOnFailure(_, _, _, _, _)
broadcastLoopStopsOnFailure(m, ks, event, excludeClientId, t) ==
  IF ks = <<>> THEN m
  ELSE IF ~has(m.clients, ks[1])
    THEN broadcastLoopStopsOnFailure(m, Tail(ks), event, excludeClientId, t)
  ELSE IF ks[1] # excludeClientId
    THEN LET m1 == sendToClient(m, ks[1], event, t)
         IN IF m1.ok
              THEN broadcastLoopStopsOnFailure([m1 EXCEPT !.count = @ + 1],
                                               Tail(ks), event, excludeClientId, t)
              ELSE m1
  ELSE broadcastLoopStopsOnFailure(m, Tail(ks), event, excludeClientId, t)

\* the loop of broadcast over this.clients.keys()
RECURSIVE broadcastLoop(_, _, _, _, _)
broadcastLoop(m, ks, event, excludeClientId, t) ==
  IF ks = <<>> THEN m
  ELSE IF ~has(m.clients, ks[1]) THEN broadcastLoop(m, Tail(ks), event, excludeClientId, t)
  ELSE IF ks[1] # excludeClientId
    THEN LET m1 == sendToClient(m, ks[1], event, t)
         IN broadcastLoop([m1 EXCEPT !.count = IF m1.ok THEN @ + 1 ELSE @],
                          Tail(ks), event, excludeClientId, t)
  ELSE broadcastLoop(m, Tail(ks), event, excludeClientId, t)

\* broadcast that ignores excludeClientId
broadcastNoExclude(m, event, excludeClientId, t) ==
  broadcastLoop([m EXCEPT !.count = 0], keys(m.clients), event, NoClient, t)

broadcast(m, event, excludeClientId, t) ==
  broadcastLoop([m EXCEPT !.count = 0], keys(m.clients), event, excludeClientId, t)

getActiveClients(cs) == keys(cs)

\* getClientsByUser without its userId test
getClientsByUserAll(cs, userId) == keys(cs)

RECURSIVE getClientsByUser(_, _)
getClientsByUser(cs, userId) ==
  IF cs = <<>> THEN <<>>
  ELSE IF cs[1].userId = userId
    THEN <<cs[1].id>> \o getClientsByUser(Tail(cs), userId)
  ELSE getClientsByUser(Tail(cs), userId)

\* one unit of the clock, in the milliseconds of Date.now()
ClockUnitMs == 1500

\* Math.round(a / b) for a >= 0, b > 0: halves round up
MathRound(a, b) == (2 * a + b) \div (2 * b)

\* `c.userId` as a condition
truthyUserId(c) == TruthyString(c.userId # NoUser, c.userId)

\* connections.reduce((sum, c) => sum + (now - c.connectedAt.getTime()), 0)
RECURSIVE sumConnectionTime(_, _)
sumConnectionTime(cs, t) ==
  IF cs = <<>> THEN 0
  ELSE (t - cs[1].connectedAt) * ClockUnitMs + sumConnectionTime(Tail(cs), t)

\* Math.max in the place of Math.min
RECURSIVE maxConnectedAt(_)
maxConnectedAt(cs) ==
  IF Len(cs) = 1 THEN cs[1].connectedAt
  ELSE LET rest == maxConnectedAt(Tail(cs))
       IN IF cs[1].connectedAt > rest THEN cs[1].connectedAt ELSE rest

\* Math.min(...connections.map((c) => c.connectedAt.getTime())), in clock units
RECURSIVE minConnectedAt(_)
minConnectedAt(cs) ==
  IF Len(cs) = 1 THEN cs[1].connectedAt
  ELSE LET rest == minConnectedAt(Tail(cs))
       IN IF cs[1].connectedAt < rest THEN cs[1].connectedAt ELSE rest

\* what getStats returns when nothing is registered, and the value of the
\* history record's field when the operation was another
NoStats ==
  [totalClients |-> 0, authenticatedClients |-> 0, anonymousClients |-> 0,
   averageConnectionTime |-> 0, oldestConnection |-> 0]

getStats(cs, t) ==
  [totalClients |-> Len(cs),
   authenticatedClients |-> Cardinality({k \in 1..Len(cs) : truthyUserId(cs[k])}),
   anonymousClients |-> Cardinality({k \in 1..Len(cs) : ~truthyUserId(cs[k])}),
   averageConnectionTime |->
     IF Len(cs) > 0 THEN MathRound(sumConnectionTime(cs, t), Len(cs) * 1000) ELSE 0,
   oldestConnection |->
     IF Len(cs) > 0
       THEN MathRound((t - minConnectedAt(cs)) * ClockUnitMs, 1000) ELSE 0]

\* the 'ping' event of a heartbeat tick
PingEvent(t) ==
  EventOf("ping", JObj(<<<<"timestamp", JNum(t)>>, <<"serverTime", JStr(toISOString(t))>>>>))

\* a heartbeat loop that leaves after its first ping
RECURSIVE heartbeatLoopOnePing(_, _, _)
heartbeatLoopOnePing(m, ks, t) ==
  IF ks = <<>> THEN m
  ELSE IF ~has(m.clients, ks[1]) THEN heartbeatLoopOnePing(m, Tail(ks), t)
  ELSE IF t - get(m.clients, ks[1]).lastPing > clientTimeout
    THEN heartbeatLoopOnePing([m EXCEPT !.staleClients = Append(@, ks[1]),
                                        !.timedOut = Append(@, ks[1])], Tail(ks), t)
  ELSE LET m1 == sendToClient(m, ks[1], PingEvent(t), t)
       IN IF m1.ok THEN m1 ELSE [m1 EXCEPT !.staleClients = Append(@, ks[1])]

\* the first loop of a heartbeat tick; m.staleClients is the array of that name
RECURSIVE heartbeatLoop(_, _, _)
heartbeatLoop(m, ks, t) ==
  IF ks = <<>> THEN m
  ELSE IF ~has(m.clients, ks[1]) THEN heartbeatLoop(m, Tail(ks), t)
  ELSE IF t - get(m.clients, ks[1]).lastPing > clientTimeout
    THEN heartbeatLoop([m EXCEPT !.staleClients = Append(@, ks[1]),
                                 !.timedOut = Append(@, ks[1])], Tail(ks), t)
  ELSE LET m1 == sendToClient(m, ks[1], PingEvent(t), t)
       IN heartbeatLoop(IF m1.ok THEN m1
                        ELSE [m1 EXCEPT !.staleClients = Append(@, ks[1])],
                        Tail(ks), t)

\* staleClients.forEach(removeClient)
RECURSIVE removeAll(_, _)
removeAll(m, ids) ==
  IF ids = <<>> THEN m ELSE removeAll(removeClient(m, ids[1]), Tail(ids))

\* a heartbeat tick without the staleClients.forEach removal pass
heartbeatTickNoRemoval(m, t) == heartbeatLoop(m, keys(m.clients), t)

\* the callback of the heartbeat's setInterval, past its isShuttingDown test
heartbeatTick(m, t) ==
  LET m1 == heartbeatLoop(m, keys(m.clients), t)
  IN removeAll(m1, m1.staleClients)

\* the 'server-shutdown' event of cleanup()
ShutdownEvent(t) ==
  EventOf("server-shutdown",
          JObj(<<<<"message", JStr("Server is shutting down")>>, <<"timestamp", JNum(t)>>>>))

\* the forEach of cleanup() without its removeClient call
RECURSIVE cleanupLoopSendOnly(_, _, _)
cleanupLoopSendOnly(m, ids, t) ==
  IF ids = <<>> THEN m
  ELSE cleanupLoopSendOnly(sendToClient(m, ids[1], ShutdownEvent(t), t), Tail(ids), t)

\* clientIds.forEach of cleanup(): send, then remove
RECURSIVE cleanupLoop(_, _, _)
cleanupLoop(m, ids, t) ==
  IF ids = <<>> THEN m
  ELSE cleanupLoop(removeClient(sendToClient(m, ids[1], ShutdownEvent(t), t), ids[1]),
                   Tail(ids), t)

cleanup(m, t) == cleanupLoop(m, keys(m.clients), t)

\* a 'connected' event that carries no particular connection's id
ConnectedEventAnonymous(clientId, t) ==
  EventOf("connected",
          JObj(<<<<"clientId", JStr(uuidString(NoClient))>>, <<"timestamp", JNum(t)>>,
                 <<"serverTime", JStr(toISOString(t))>>>>))

\* the 'connected' event of addClient's timer
ConnectedEvent(clientId, t) ==
  EventOf("connected",
          JObj(<<<<"clientId", JStr(uuidString(clientId))>>, <<"timestamp", JNum(t)>>,
                 <<"serverTime", JStr(toISOString(t))>>>>))

(* ----------------------------- addClient ------------------------------- *)
\* the capacity test written with > for >=
addClientThrowsOffByOne(cs, shuttingDown) == shuttingDown \/ Len(cs) > maxClients

\* addClient without its capacity test
addClientThrowsNoLimit(cs, shuttingDown) == shuttingDown

\* the two tests that make addClient throw before it touches anything
addClientThrows(cs, shuttingDown) == shuttingDown \/ Len(cs) >= maxClients

\* addClient past its tests: the entry stored under the fresh id
addClient(m, clientId, userId, t) ==
  [m EXCEPT !.clients = set(@, SSEClient(clientId, userId, t, t))]

(* ------------------------------ inputs --------------------------------- *)
\* events the callers of the service pass in
Events ==
  { SSEEvent(TRUE, "42", "update", JObj(<<<<"a", JNum(1)>>>>), TRUE, 3000),
    EventOf("bad", JCircular) }

(* --------------------------- history record ---------------------------- *)
Record(op, clientId, userId, event, threw, m) ==
  [op |-> op, clientId |-> clientId, userId |-> userId, event |-> event,
   threw |-> threw, ok |-> m.ok, count |-> m.count,
   attempts |-> m.attempts, sent |-> m.sent, closes |-> m.closes,
   closeErrors |-> m.closeErrors,
   staleClients |-> m.staleClients, timedOut |-> m.timedOut, text |-> "",
   status |-> 0, stats |-> NoStats, ids |-> <<>>, input |-> NoInput]

\* what a handler leaves of the registry and the streams
Commit(m) ==
  /\ clients' = m.clients
  /\ controller' = m.controller
  /\ removed' = m.removed

(* ------------------------------ useSSE --------------------------------- *)
\* the hook's maxReconnectAttempts option
maxReconnectAttempts == 2
\* how many EventSources one hook creates in a run (connectionIdRef's last value)
MaxConnections == 3
\* the names setupEventListeners always listens for
systemEvents == {"connected", "ping", "error", "message"}
\* event names the server sends and components register handlers for:
\* one built-in name and one custom name
HookEvents == {"connected", "custom-event"}

\* a pending setTimeout of the hook: which callback, the connection whose
\* closure set it, and the reconnectAttempts captured by the connect it calls
Timer(kind, cid, attempts) == [kind |-> kind, cid |-> cid, attempts |-> attempts]
NoTimer == Timer("none", 0, 0)
\* no event has reached the hook
NoDelivery == [cid |-> 0, event |-> "", listened |-> FALSE, invoked |-> FALSE]

\* the hook after its first render and its mount effect: the refs, the React
\* state, the 100 ms initTimer, and no EventSource yet (0 stands for null);
\* readyState and listeners are the EventSources', captured[c] is the
\* reconnectAttempts in the closure of the connect() that created c;
\* scheduled, delivery and closed are history (closed: 0 before close() or
\* unmount, 1 once one has run, 2 once a later callback or call has run)
HookInit ==
  [ mountedRef |-> TRUE, isConnectingRef |-> FALSE, connectionIdRef |-> 0,
    eventSourceRef |-> 0, reconnectTimeoutRef |-> NoTimer,
    handlersRef |-> [e \in HookEvents |-> FALSE],
    connected |-> FALSE, clientId |-> FALSE, reconnectAttempts |-> 0,
    rendered |-> TRUE,
    readyState |-> [c \in 1..MaxConnections |-> "none"],
    listeners |-> [c \in 1..MaxConnections |-> {}],
    captured |-> [c \in 1..MaxConnections |-> 0],
    timers |-> {Timer("init", 0, 0)},
    scheduled |-> 0, delivery |-> NoDelivery, closed |-> 0 ]

\* history: a callback or a call of the hook has run after close() or unmount
Later(h) == [h EXCEPT !.closed = IF @ = 0 THEN 0 ELSE 2]

\* cleanup(): clear the reconnect timer, close the EventSource, reset the state
hookCleanup(h) ==
  LET h1 == IF h.reconnectTimeoutRef # NoTimer
              THEN [h EXCEPT !.timers = @ \ {h.reconnectTimeoutRef},
                             !.reconnectTimeoutRef = NoTimer]
              ELSE h
      h2 == IF h1.eventSourceRef # 0
              THEN [h1 EXCEPT !.readyState[h1.eventSourceRef] = "closed",
                              !.eventSourceRef = 0]
              ELSE h1
  IN  [h2 EXCEPT !.connected = FALSE, !.clientId = FALSE,
                 !.isConnectingRef = FALSE]

\* connect() without its test of mountedRef
hookConnectIgnoresMounted(h, attempts) ==
  IF h.isConnectingRef \/ h.eventSourceRef # 0
    THEN h
    ELSE LET c == h.connectionIdRef + 1
         IN  [h EXCEPT !.connectionIdRef = c, !.isConnectingRef = TRUE,
                       !.eventSourceRef = c, !.readyState[c] = "connecting",
                       !.captured[c] = attempts,
                       !.timers = @ \cup {Timer("setup", c, 0)}]

\* connect() without its test for a connection that exists or is being made
hookConnectAgain(h, attempts) ==
  IF ~h.mountedRef \/ h.connectionIdRef >= MaxConnections
    THEN h
    ELSE LET c == h.connectionIdRef + 1
         IN  [h EXCEPT !.connectionIdRef = c, !.isConnectingRef = TRUE,
                       !.eventSourceRef = c, !.readyState[c] = "connecting",
                       !.captured[c] = attempts,
                       !.timers = @ \cup {Timer("setup", c, 0)}]

\* connect(), as the closure of a render whose reconnectAttempts was
\* `attempts`: nothing when unmounted, connecting or connected; otherwise a
\* new connection id, a new EventSource, and the 100 ms timer of
\* setupEventListeners
hookConnect(h, attempts) ==
  IF ~h.mountedRef \/ h.isConnectingRef \/ h.eventSourceRef # 0
    THEN h
    ELSE LET c == h.connectionIdRef + 1
         IN  [h EXCEPT !.connectionIdRef = c, !.isConnectingRef = TRUE,
                       !.eventSourceRef = c, !.readyState[c] = "connecting",
                       !.captured[c] = attempts,
                       !.timers = @ \cup {Timer("setup", c, 0)}]

Init ==
  /\ clients = <<>>
  /\ controller = [i \in UUIDs |-> "none"]
  /\ isShuttingDown = FALSE
  /\ heartbeatInterval = TRUE
  /\ nextUUID = 1
  /\ welcome = {}
  /\ keepAlive = {}
  /\ listening = {}
  /\ now = 0
  /\ issued = {}
  /\ removed = {}
  /\ rateLimitMap = [ip \in IPs |-> NoLimit]
  /\ acceptedAt = [ip \in IPs |-> [t \in 0..RateHorizon |-> 0]]
  /\ hook = HookInit
  /\ last = Record("init", NoClient, NoUser, NoEvent, FALSE, Machine)

(* ------------------------------ actions -------------------------------- *)
\* GET /api/sse: the stream's start() registers the connection, starts the
\* keep-alive interval and listens for the request's abort; a throwing
\* addClient makes the constructor throw and the handler answer 500
GET(userId) ==
  /\ IF addClientThrows(clients, isShuttingDown)
       THEN /\ last' = Record("addClient", NoClient, userId, NoEvent, TRUE, Machine)
            /\ UNCHANGED <<clients, controller, isShuttingDown, heartbeatInterval, nextUUID,
                           welcome, keepAlive, listening, now, issued, removed>>
       ELSE /\ nextUUID <= MaxUUID
            /\ LET clientId == nextUUID
                   m == addClient([Machine EXCEPT !.controller[clientId] = "readable"],
                                  clientId, userId, now)
               IN /\ Commit(m)
                  /\ last' = Record("addClient", clientId, userId, NoEvent, FALSE, m)
                  /\ nextUUID' = nextUUID + 1
                  /\ issued' = issued \cup {clientId}
                  /\ welcome' = welcome \cup {clientId}
                  /\ keepAlive' = keepAlive \cup {clientId}
                  /\ listening' = listening \cup {clientId}
            /\ UNCHANGED <<isShuttingDown, heartbeatInterval, now>>
  /\ UNCHANGED <<limiterVars, hook>>

\* the setTimeout callback of addClient
WelcomeTimer(clientId) ==
  /\ clientId \in welcome
  /\ LET e == ConnectedEvent(clientId, now)
         m == sendToClient(Machine, clientId, e, now)
     IN /\ Commit(m)
        /\ last' = Record("welcome", clientId, NoUser, e, FALSE, m)
  /\ welcome' = welcome \ {clientId}
  /\ UNCHANGED <<isShuttingDown, heartbeatInterval, nextUUID, keepAlive, listening,
                 now, issued>>
  /\ UNCHANGED <<limiterVars, hook>>

\* the request's abort event: the handler's cleanup closure
Abort(clientId) ==
  /\ clientId \in listening
  /\ LET m == removeClient(Machine, clientId)
     IN /\ Commit(m)
        /\ last' = Record("abort", clientId, NoUser, NoEvent, FALSE, m)
  /\ keepAlive' = keepAlive \ {clientId}
  /\ listening' = listening \ {clientId}
  /\ UNCHANGED <<isShuttingDown, heartbeatInterval, nextUUID, welcome, now, issued>>
  /\ UNCHANGED <<limiterVars, hook>>

\* the consumer cancels the stream (the peer went away): the stream closes and
\* the source's cancel() runs, which finds no _cleanup on `this` (it was stored
\* on the controller) and does nothing
Cancel(clientId) ==
  /\ controller[clientId] = "readable"
  /\ controller' = [controller EXCEPT ![clientId] = "closed"]
  /\ last' = Record("cancel", clientId, NoUser, NoEvent, FALSE, Machine)
  /\ UNCHANGED <<clients, isShuttingDown, heartbeatInterval, nextUUID, welcome,
                 keepAlive, listening, now, issued, removed>>
  /\ UNCHANGED <<limiterVars, hook>>

\* a keep-alive that counts as activity of the connection: it sets lastPing
KeepAliveTimerTouches(clientId) ==
  /\ clientId \in keepAlive
  /\ canCloseOrEnqueue(controller[clientId])
  /\ has(clients, clientId)
  /\ clients' = set(clients, [get(clients, clientId) EXCEPT !.lastPing = now])
  /\ last' = Record("keepAlive", clientId, NoUser, NoEvent, FALSE,
                    [Machine EXCEPT !.sent = <<<<clientId, ": keep-alive\n\n">>>>,
                                    !.ok = TRUE])
  /\ UNCHANGED <<controller, isShuttingDown, heartbeatInterval, nextUUID, welcome,
                 keepAlive, listening, now, issued, removed>>
  /\ UNCHANGED <<limiterVars, hook>>

\* a keep-alive interval that goes on after a failed enqueue
KeepAliveTimerNeverCleared(clientId) ==
  /\ clientId \in keepAlive
  /\ last' = Record("keepAlive", clientId, NoUser, NoEvent,
                    ~canCloseOrEnqueue(controller[clientId]),
                    IF canCloseOrEnqueue(controller[clientId])
                      THEN [Machine EXCEPT !.sent = <<<<clientId, ": keep-alive\n\n">>>>,
                                           !.ok = TRUE]
                      ELSE Machine)
  /\ UNCHANGED <<clients, controller, isShuttingDown, heartbeatInterval, nextUUID,
                 welcome, keepAlive, listening, now, issued, removed>>
  /\ UNCHANGED <<limiterVars, hook>>

\* the keep-alive interval of GET /api/sse: a failed enqueue clears it
KeepAliveTimer(clientId) ==
  /\ clientId \in keepAlive
  /\ IF canCloseOrEnqueue(controller[clientId])
     THEN /\ keepAlive' = keepAlive
          /\ last' = Record("keepAlive", clientId, NoUser, NoEvent, FALSE,
                            [Machine EXCEPT !.sent = <<<<clientId, ": keep-alive\n\n">>>>,
                                            !.ok = TRUE])
     ELSE /\ keepAlive' = keepAlive \ {clientId}
          /\ last' = Record("keepAlive", clientId, NoUser, NoEvent, TRUE, Machine)
  /\ UNCHANGED <<clients, controller, isShuttingDown, heartbeatInterval, nextUUID,
                 welcome, listening, now, issued, removed>>
  /\ UNCHANGED <<limiterVars, hook>>

RemoveClient(clientId) ==
  /\ LET m == removeClient(Machine, clientId)
     IN /\ Commit(m)
        /\ last' = Record("removeClient", clientId, NoUser, NoEvent, FALSE, m)
  /\ UNCHANGED <<isShuttingDown, heartbeatInterval, nextUUID, welcome, keepAlive,
                 listening, now, issued>>
  /\ UNCHANGED <<limiterVars, hook>>

SendToClient(clientId, event) ==
  /\ LET m == sendToClient(Machine, clientId, event, now)
     IN /\ Commit(m)
        /\ last' = Record("sendToClient", clientId, NoUser, event, FALSE, m)
  /\ UNCHANGED <<isShuttingDown, heartbeatInterval, nextUUID, welcome, keepAlive,
                 listening, now, issued>>
  /\ UNCHANGED <<limiterVars, hook>>

SendToUser(userId, event) ==
  /\ LET m == sendToUser(Machine, userId, event, now)
     IN /\ Commit(m)
        /\ last' = Record("sendToUser", NoClient, userId, event, FALSE, m)
  /\ UNCHANGED <<isShuttingDown, heartbeatInterval, nextUUID, welcome, keepAlive,
                 listening, now, issued>>
  /\ UNCHANGED <<limiterVars, hook>>

Broadcast(event, excludeClientId) ==
  /\ LET m == broadcast(Machine, event, excludeClientId, now)
     IN /\ Commit(m)
        /\ last' = Record("broadcast", excludeClientId, NoUser, event, FALSE, m)
  /\ UNCHANGED <<isShuttingDown, heartbeatInterval, nextUUID, welcome, keepAlive,
                 listening, now, issued>>
  /\ UNCHANGED <<limiterVars, hook>>

\* the heartbeat's setInterval callback
Heartbeat ==
  /\ heartbeatInterval
  /\ LET m == IF isShuttingDown THEN Machine ELSE heartbeatTick(Machine, now)
     IN /\ Commit(m)
        /\ last' = Record("heartbeat", NoClient, NoUser, NoEvent, FALSE, m)
  /\ UNCHANGED <<isShuttingDown, heartbeatInterval, nextUUID, welcome, keepAlive,
                 listening, now, issued>>
  /\ UNCHANGED <<limiterVars, hook>>

\* cleanup(), called directly
Cleanup ==
  /\ heartbeatInterval' = FALSE
  /\ LET m == cleanup(Machine, now)
     IN /\ Commit(m)
        /\ last' = Record("cleanup", NoClient, NoUser, NoEvent, FALSE, m)
  /\ UNCHANGED <<isShuttingDown, nextUUID, welcome, keepAlive, listening, now, issued>>
  /\ UNCHANGED <<limiterVars, hook>>

\* SIGTERM / SIGINT: the shutdown closure of setupGracefulShutdown
Shutdown ==
  /\ isShuttingDown' = TRUE
  /\ heartbeatInterval' = FALSE
  /\ LET m == cleanup(Machine, now)
     IN /\ Commit(m)
        /\ last' = Record("shutdown", NoClient, NoUser, NoEvent, FALSE, m)
  /\ UNCHANGED <<nextUUID, welcome, keepAlive, listening, now, issued>>
  /\ UNCHANGED <<limiterVars, hook>>

\* time passes, up to the clock value `until`; the 200 ms timers pending fire
\* before the clock's next unit
Tick(until) ==
  /\ now < until
  /\ welcome = {}
  /\ now' = now + 1
  /\ last' = Record("tick", NoClient, NoUser, NoEvent, FALSE, Machine)
  /\ UNCHANGED <<clients, controller, isShuttingDown, heartbeatInterval, nextUUID,
                 welcome, keepAlive, listening, issued, removed>>
  /\ UNCHANGED <<limiterVars, hook>>

\* getStats(), called by a monitor
GetStats ==
  /\ last' = [Record("getStats", NoClient, NoUser, NoEvent, FALSE, Machine)
                EXCEPT !.stats = getStats(clients, now)]
  /\ UNCHANGED <<clients, controller, isShuttingDown, heartbeatInterval, nextUUID,
                 welcome, keepAlive, listening, now, issued, removed>>
  /\ UNCHANGED <<limiterVars, hook>>

GetClientsByUser(userId) ==
  /\ last' = [Record("getClientsByUser", NoClient, userId, NoEvent, FALSE, Machine)
                EXCEPT !.ids = getClientsByUser(clients, userId)]
  /\ UNCHANGED <<clients, controller, isShuttingDown, heartbeatInterval, nextUUID,
                 welcome, keepAlive, listening, now, issued, removed>>
  /\ UNCHANGED <<limiterVars, hook>>

\* the registry: registration, removal, single sends, heartbeat, shutdown.
\* RemoveClient is every explicit removal, the one of the abort listener
\* included; the route's own timers and listeners (Abort, KeepAliveTimer) and
\* the direct cleanup() call (Cleanup) change the registry only through
\* removeClient and sendToClient and are left to the specifications about them
Next ==
  \/ \E u \in RegistryUsers : GET(u)
  \/ \E i \in UUIDs : WelcomeTimer(i)
  \/ \E i \in UUIDs : Cancel(i)
  \/ \E i \in UUIDs : RemoveClient(i)
  \/ \E i \in UUIDs, e \in Events : SendToClient(i, e)
  \/ Heartbeat
  \/ Shutdown
  \/ Tick(MaxTime)

Spec == Init /\ [][Next]_vars

\* the delivery engine's fan-out calls over every registry they can meet
NextDelivery ==
  \/ \E u \in UserIds \cup {NoUser} : GET(u)
  \/ \E i \in UUIDs : WelcomeTimer(i)
  \/ \E i \in UUIDs : Cancel(i)
  \/ \E i \in UUIDs : RemoveClient(i)
  \/ \E u \in UserIds, e \in Events : SendToUser(u, e)
  \/ \E e \in Events, x \in UUIDs \cup {NoClient} : Broadcast(e, x)

SpecDelivery == Init /\ [][NextDelivery]_vars

\* draining: cleanup() called directly (resetInstance calls it so) or by the
\* signal handlers, over every registry, and what the instance does afterwards
NextDrain ==
  \/ \E u \in RegistryUsers : GET(u)
  \/ \E i \in UUIDs : WelcomeTimer(i)
  \/ \E i \in UUIDs : Cancel(i)
  \/ Heartbeat
  \/ Cleanup
  \/ Shutdown

SpecDrain == Init /\ [][NextDrain]_vars

\* every operation that writes to streams, over registries connections have
\* been removed from
NextRemoval ==
  \/ \E u \in RegistryUsers : GET(u)
  \/ \E i \in UUIDs : WelcomeTimer(i)
  \/ \E i \in UUIDs : RemoveClient(i)
  \/ \E i \in UUIDs, e \in Events : SendToClient(i, e)
  \/ \E e \in Events : SendToUser("u1", e)
  \/ \E e \in Events : Broadcast(e, NoClient)
  \/ Heartbeat

SpecRemoval == Init /\ [][NextRemoval]_vars

\* the GET /api/sse handler: its stream callbacks, its abort listener and its
\* keep-alive interval, with the heartbeat that meets what they leave behind
NextRoute ==
  \/ \E u \in RegistryUsers : GET(u)
  \/ \E i \in UUIDs : WelcomeTimer(i)
  \/ \E i \in UUIDs : Abort(i)
  \/ \E i \in UUIDs : Cancel(i)
  \/ \E i \in UUIDs : KeepAliveTimer(i)
  \/ Heartbeat

SpecRoute == Init /\ [][NextRoute]_vars

\* keep-alive comments and heartbeat ticks on anonymous connections as time
\* passes
NextKeepAlive ==
  \/ GET(NoUser)
  \/ \E i \in UUIDs : WelcomeTimer(i)
  \/ \E i \in UUIDs : KeepAliveTimer(i)
  \/ Heartbeat
  \/ Tick(MaxTime)

SpecKeepAlive == Init /\ [][NextKeepAlive]_vars

(* ----------------------- POST /api/sse-broadcast ----------------------- *)
\* broadcastSchema without the .max(50) of its event name
broadcastSchemaNoMax(body) ==
  /\ Len(body.event) >= 1
  /\ body.targetClientId # NotAUuid
  /\ body.excludeClientId # NotAUuid

\* broadcastSchema.parse(body) does not throw
broadcastSchema(body) ==
  /\ Len(body.event) >= 1
  /\ Len(body.event) <= 50
  /\ body.targetClientId # NotAUuid
  /\ body.excludeClientId # NotAUuid

\* the limiter with > for >= in its test of the count
rateLimitOffByOne(map, clientIP, t) ==
  LET clientLimit == map[clientIP]
      fresh == [count |-> 1, resetTime |-> t + RATE_WINDOW]
  IN IF clientLimit # NoLimit /\ t < clientLimit.resetTime
       THEN IF clientLimit.count > RATE_LIMIT
              THEN [limited |-> TRUE, map |-> map]
              ELSE [limited |-> FALSE,
                    map |-> [map EXCEPT ![clientIP].count = @ + 1]]
       ELSE [limited |-> FALSE, map |-> [map EXCEPT ![clientIP] = fresh]]

\* the rate limiter at the head of POST: whether the call is refused, and
\* rateLimitMap afterwards
rateLimit(map, clientIP, t) ==
  LET clientLimit == map[clientIP]
      fresh == [count |-> 1, resetTime |-> t + RATE_WINDOW]
  IN IF clientLimit # NoLimit
       THEN IF t < clientLimit.resetTime
              THEN IF clientLimit.count >= RATE_LIMIT
                     THEN [limited |-> TRUE, map |-> map]
                     ELSE [limited |-> FALSE,
                           map |-> [map EXCEPT ![clientIP].count = @ + 1]]
              ELSE [limited |-> FALSE, map |-> [map EXCEPT ![clientIP] = fresh]]
       ELSE [limited |-> FALSE, map |-> [map EXCEPT ![clientIP] = fresh]]

\* the bodies requests carry: a broadcast, and one with an empty event name
Bodies ==
  { Body("update", JNum(1), NoClient, NoClient),
    Body("", JNum(1), NoClient, NoClient) }

\* POST /api/sse-broadcast
POST(clientIP, body) ==
  /\ LET r == rateLimit(rateLimitMap, clientIP, now)
         valid == broadcastSchema(body)
         e == EventOf(body.event, body.data)
         m == IF r.limited \/ ~valid THEN Machine
              ELSE IF body.targetClientId # NoClient
                THEN LET m1 == sendToClient(Machine, body.targetClientId, e, now)
                     IN [m1 EXCEPT !.count = IF m1.ok THEN 1 ELSE 0]
              ELSE broadcast(Machine, e, body.excludeClientId, now)
         status == IF r.limited THEN 429 ELSE IF ~valid THEN 400 ELSE 200
     IN /\ rateLimitMap' = r.map
        /\ acceptedAt' = IF r.limited THEN acceptedAt
                         ELSE [acceptedAt EXCEPT ![clientIP][now] = @ + 1]
        /\ Commit(m)
        /\ last' = [Record("POST", body.targetClientId, NoUser, e, FALSE, m)
                      EXCEPT !.status = status, !.input = body]
  /\ UNCHANGED <<isShuttingDown, heartbeatInterval, nextUUID, welcome, keepAlive,
                 listening, now, issued, hook>>

\* the module's setInterval: entries past their resetTime are deleted
RateLimitSweep ==
  /\ rateLimitMap' =
       [ip \in IPs |->
          IF rateLimitMap[ip] # NoLimit /\ now > rateLimitMap[ip].resetTime
            THEN NoLimit ELSE rateLimitMap[ip]]
  /\ last' = Record("sweep", NoClient, NoUser, NoEvent, FALSE, Machine)
  /\ UNCHANGED <<clients, controller, isShuttingDown, heartbeatInterval, nextUUID,
                 welcome, keepAlive, listening, now, issued, removed, acceptedAt,
                 hook>>

\* requests of one source at every pace the clock allows
NextRateLimit ==
  \/ \E ip \in IPs, body \in Bodies : POST(ip, body)
  \/ RateLimitSweep
  \/ Tick(RateHorizon)

SpecRateLimit == Init /\ [][NextRateLimit]_vars

\* the read-only queries, over registries of every age and every mix of users
NextStats ==
  \/ \E u \in UserIds \cup {NoUser} : GET(u)
  \/ \E i \in UUIDs : WelcomeTimer(i)
  \/ \E i \in UUIDs : RemoveClient(i)
  \/ Tick(MaxTime)
  \/ GetStats
  \/ \E u \in UserIds : GetClientsByUser(u)

SpecStats == Init /\ [][NextStats]_vars

(* --------------------------- tRPC sseRouter ---------------------------- *)
\* eventSchema: z.string().min(1).max(50) of the event name
eventSchema(input) == Len(input.event) >= 1 /\ Len(input.event) <= 50

\* clientIdSchema: z.string().uuid()
clientIdSchema(id) == id \in UUIDs

\* crypto.randomUUID() of the id of an event
EventUUIDs == {"e-uuid"}

\* the event a procedure hands to the service
TrpcEvent(input, id) == SSEEvent(TRUE, id, input.event, input.data, FALSE, 0)

\* what a procedure leaves, and its answer: status 400 when the input parser
\* refused the input, the result's success (ok) and sentCount (count) otherwise
TrpcDone(op, input, userId, e, valid, m) ==
  /\ Commit(m)
  /\ last' = [Record(op, NoClient, userId, e, FALSE, m)
                EXCEPT !.status = IF valid THEN 200 ELSE 400, !.input = input]
  /\ UNCHANGED <<isShuttingDown, heartbeatInterval, nextUUID, welcome, keepAlive,
                 listening, now, issued>>

\* sseRouter.sendToClient: input.targetClientId stands for its clientId
TrpcSendToClient(input) ==
  /\ \E id \in EventUUIDs :
         LET valid == clientIdSchema(input.targetClientId) /\ eventSchema(input)
             e == TrpcEvent(input, id)
             m == IF valid THEN sendToClient(Machine, input.targetClientId, e, now)
                  ELSE Machine
         IN TrpcDone("trpc.sendToClient", input, NoUser, e, valid, m)
  /\ UNCHANGED <<limiterVars, hook>>

\* sseRouter.sendToUser that answers success whatever the count
TrpcSendToUserAlwaysSucceeds(input, userId, sessionUser) ==
  /\ \E id \in EventUUIDs :
         LET valid == eventSchema(input)
             e == TrpcEvent(input, id)
             targetUserId == IF TruthyString(userId # NoUser, userId) THEN userId
                             ELSE sessionUser
             m1 == IF valid THEN sendToUser(Machine, targetUserId, e, now) ELSE Machine
             m == [m1 EXCEPT !.ok = TRUE]
         IN TrpcDone("trpc.sendToUser", input, targetUserId, e, valid, m)
  /\ UNCHANGED <<limiterVars, hook>>

\* sseRouter.sendToUser of the signed-in user sessionUser; userId is the
\* optional input.userId
TrpcSendToUser(input, userId, sessionUser) ==
  /\ \E id \in EventUUIDs :
         LET valid == eventSchema(input)
             e == TrpcEvent(input, id)
             targetUserId == IF TruthyString(userId # NoUser, userId) THEN userId
                             ELSE sessionUser
             m1 == IF valid THEN sendToUser(Machine, targetUserId, e, now) ELSE Machine
             m == [m1 EXCEPT !.ok = m1.count > 0]
         IN TrpcDone("trpc.sendToUser", input, targetUserId, e, valid, m)
  /\ UNCHANGED <<limiterVars, hook>>

\* sseRouter.broadcast
TrpcBroadcast(input) ==
  /\ \E id \in EventUUIDs :
         LET valid == /\ input.excludeClientId = NoClient
                         \/ clientIdSchema(input.excludeClientId)
                      /\ eventSchema(input)
             e == TrpcEvent(input, id)
             m1 == IF valid THEN broadcast(Machine, e, input.excludeClientId, now)
                   ELSE Machine
             m == [m1 EXCEPT !.ok = m1.count > 0]
         IN TrpcDone("trpc.broadcast", input, NoUser, e, valid, m)
  /\ UNCHANGED <<limiterVars, hook>>

\* event names at and around the limits of the schemas
Name50 == "01234567890123456789012345678901234567890123456789"
EventNameInputs == {"update", "", Name50, Name50 \o "x"}

\* the requests of the control API: well-formed ones, and ones with a bad
\* event name or a bad id
ControlInputs ==
  {Body(n, JNum(1), NoClient, NoClient) : n \in EventNameInputs}
    \cup {Body("update", JNum(1), t, NoClient) : t \in {1, 2, NotAUuid}}
    \cup {Body("update", JNum(1), NoClient, x) : x \in {1, NotAUuid}}

\* the inbound control API over registries of one or two connections
NextControl ==
  \/ \E u \in RegistryUsers : GET(u)
  \/ \E i \in UUIDs : WelcomeTimer(i)
  \/ \E ip \in IPs, body \in ControlInputs : POST(ip, body)
  \/ \E input \in ControlInputs : TrpcSendToClient(input)
  \/ \E input \in ControlInputs, u \in {NoUser, "", "u1"} :
        TrpcSendToUser(input, u, "u2")
  \/ \E input \in ControlInputs : TrpcBroadcast(input)

SpecControl == Init /\ [][NextControl]_vars

(* ------------------- formatSSEMessage on its own ----------------------- *)
\* the events formatSSEMessage is applied to
EventIds == {<<FALSE, "">>, <<TRUE, "">>, <<TRUE, "42">>}
EventNames == {"update", "ping", "message"}
EventData == {JObj(<<<<"a", JNum(1)>>>>), JNum(7), JStr("hi"), JNull, JCircular}
EventRetries == {<<FALSE, 0>>, <<TRUE, 0>>, <<TRUE, 3000>>}
FormatEvents ==
  { SSEEvent(i[1], i[2], n, d, r[1], r[2]) :
      i \in EventIds, n \in EventNames, d \in EventData, r \in EventRetries }

\* sendToClient's call of formatSSEMessage, alone
Format(event) ==
  /\ LET msg == formatSSEMessage(event)
     IN last' = [Record("formatSSEMessage", NoClient, NoUser, event, msg.threw, Machine)
                   EXCEPT !.text = msg.text]
  /\ UNCHANGED <<clients, controller, isShuttingDown, heartbeatInterval, nextUUID,
                 welcome, keepAlive, listening, now, issued, removed>>
  /\ UNCHANGED <<limiterVars, hook>>

NextFormat == \E e \in FormatEvents : Format(e)

SpecFormat == Init /\ [][NextFormat]_vars

(* ============================== claims ================================= *)
Range(seq) == {seq[i] : i \in 1..Len(seq)}
NoDuplicates(seq) == \A i, j \in 1..Len(seq) : i # j => seq[i] # seq[j]
\* the connections the chunks of a `sent` log went to
Receivers(sent) == {sent[i][1] : i \in 1..Len(sent)}
\* a write to a stream in state c of event e cannot succeed
WriteFails(c, e) == JSONthrows(e.data) \/ desiredSizeIsNull(c) \/ ~canCloseOrEnqueue(c)

\* C1: getActiveClients() lists, each exactly once, the ids a successful
\* addClient returned and no removal has deleted since, and no other id
C1_ActiveClientsExact ==
  /\ NoDuplicates(getActiveClients(clients))
  /\ Range(getActiveClients(clients)) = issued \ removed

\* C1 witness: an id was removed, a later registration took its place
C1_Witness ==
  /\ Cardinality(issued) = 3
  /\ removed # {}
  /\ Len(getActiveClients(clients)) = 2

\* C2: the registry never holds more than maxClients connections
C2_AtMostMaxClients == Len(clients) <= maxClients

\* C2 witness: a registration was refused at a full registry that had
\* filled up again after a removal
C2_Witness ==
  /\ Len(clients) = maxClients
  /\ removed # {}
  /\ last.op = "addClient"
  /\ last.threw

\* C3: addClient at a registry holding maxClients entries throws and changes
\* nothing: same map, no new connection, no welcome timer
C3_RejectedAddClientChangesNothing ==
  [][ (last'.op = "addClient" /\ Len(clients) >= maxClients)
        => /\ last'.threw
           /\ clients' = clients
           /\ controller' = controller
           /\ welcome' = welcome
           /\ issued' = issued
           /\ nextUUID' = nextUUID ]_vars

\* C3 witness: a refusal for capacity alone (the service is not shutting down)
C3_Witness ==
  /\ last.op = "addClient"
  /\ last.threw
  /\ ~isShuttingDown
  /\ Len(clients) = maxClients

\* C4: removeClient answers true exactly for a registered id, which it
\* deletes; for any other id (one removed before included) it answers false,
\* closes no stream and leaves the map as it was
C4_RemoveClientIdempotent ==
  [][ last'.op = "removeClient"
        => IF has(clients, last'.clientId)
           THEN last'.ok /\ ~has(clients', last'.clientId)
           ELSE /\ ~last'.ok
                /\ last'.closes = <<>>
                /\ clients' = clients
                /\ controller' = controller ]_vars

\* C4 witness: removeClient called again on an id it had removed
C4_Witness ==
  /\ last.op = "removeClient"
  /\ ~last.ok
  /\ last.clientId \in removed

\* C5: a sendToClient on a registered id whose write cannot succeed answers
\* false, writes nothing, tries once, and leaves the id unregistered
C5_FailedSendEvicts ==
  [][ ( /\ last'.op = "sendToClient"
        /\ has(clients, last'.clientId)
        /\ WriteFails(controller[last'.clientId], last'.event) )
        => /\ ~last'.ok
           /\ last'.sent = <<>>
           /\ last'.attempts = <<last'.clientId>>
           /\ last'.clientId \notin Range(getActiveClients(clients')) ]_vars

\* C5 witness: a send to a registered connection failed and evicted it
C5_Witness ==
  /\ last.op = "sendToClient"
  /\ ~last.ok
  /\ last.attempts = <<last.clientId>>
  /\ last.closes = <<last.clientId>>
  /\ last.clientId \in removed

\* C6: broadcast tries each connection registered at the call, except
\* excludeId, exactly once, never excludeId, and returns how many of those
\* writes succeeded
C6_BroadcastTargets ==
  [][ last'.op = "broadcast"
        => LET targets == Range(keys(clients)) \ {last'.clientId}
           IN /\ NoDuplicates(last'.attempts)
              /\ Range(last'.attempts) = targets
              /\ Receivers(last'.sent) =
                   {i \in targets : ~WriteFails(controller[i], last'.event)}
              /\ NoDuplicates(last'.sent)
              /\ last'.count = Cardinality(Receivers(last'.sent)) ]_vars

\* C6 witness: a broadcast that skipped a registered excludeId and wrote to
\* the other connection
C6_Witness ==
  /\ last.op = "broadcast"
  /\ has(clients, last.clientId)
  /\ Len(last.attempts) = 1
  /\ last.count = 1

\* C7: sendToUser tries exactly the connections whose userId is the
\* argument, never an anonymous one, and returns how many writes succeeded
C7_SendToUserTargets ==
  [][ last'.op = "sendToUser"
        => LET targets == {i \in Range(keys(clients)) :
                             get(clients, i).userId = last'.userId}
           IN /\ NoDuplicates(last'.attempts)
              /\ Range(last'.attempts) = targets
              /\ \A i \in Range(last'.attempts) : get(clients, i).userId # NoUser
              /\ Receivers(last'.sent) =
                   {i \in targets : ~WriteFails(controller[i], last'.event)}
              /\ NoDuplicates(last'.sent)
              /\ last'.count = Cardinality(Receivers(last'.sent)) ]_vars

\* C7 witness: a sendToUser wrote to the one connection of the user while
\* another connection (anonymous or of another user) stayed untouched
C7_Witness ==
  /\ last.op = "sendToUser"
  /\ Len(clients) = 2
  /\ last.count = 1
  /\ Len(last.attempts) = 1
  /\ \E i \in 1..2 : clients[i].userId # last.userId

\* the text of an event with the optional lines chosen by withId, withRetry
Encoded(e, withId, withRetry) ==
  (IF withId THEN "id: " \o e.id \o "\n" ELSE "")
  \o "event: " \o e.event \o "\n"
  \o "data: " \o JSONstringify(e.data) \o "\n"
  \o (IF withRetry THEN "retry: " \o ToString(e.retry) \o "\n" ELSE "")
  \o "\n"

\* the event of the spec's example
ExampleEvent == SSEEvent(TRUE, "42", "update", JObj(<<<<"a", JNum(1)>>>>), TRUE, 3000)
ExampleText == "id: 42\nevent: update\ndata: {\"a\":1}\nretry: 3000\n\n"

\* C8: the message is [id line] event line, data line [retry line], in this
\* order, each ended by one newline, then one blank line; the example event
\* gives exactly the five-line text
C8_WireEncoding ==
  (last.op = "formatSSEMessage" /\ ~last.threw)
    => /\ \E withId, withRetry \in BOOLEAN :
            /\ withId => last.event.hasId
            /\ withRetry => last.event.hasRetry
            /\ last.text = Encoded(last.event, withId, withRetry)
       /\ last.event = ExampleEvent => last.text = ExampleText

\* C8 witness: the example event was formatted
C8_Witness ==
  /\ last.op = "formatSSEMessage"
  /\ last.event = ExampleEvent
  /\ last.text = ExampleText

HasIdLine(text, e) == \E withRetry \in BOOLEAN : text = Encoded(e, TRUE, withRetry)
HasRetryLine(text, e) == \E withId \in BOOLEAN : text = Encoded(e, withId, TRUE)

\* C9: the id line is there exactly when the event has an id, the retry
\* line exactly when it has a retry hint, whatever the values are
C9_OptionalLinesIffPresent ==
  (last.op = "formatSSEMessage" /\ ~last.threw)
    => /\ HasIdLine(last.text, last.event) <=> last.event.hasId
       /\ HasRetryLine(last.text, last.event) <=> last.event.hasRetry

\* C10: a heartbeat tick removes every connection idle for longer than
\* clientTimeout and tries no write on it
C10_StaleRemovedWithoutPing ==
  [][ last'.op = "heartbeat"
        => \A i \in Range(keys(clients)) :
             (now - get(clients, i).lastPing > clientTimeout)
               => /\ ~has(clients', i)
                  /\ i \notin Range(last'.attempts)
                  /\ i \notin Receivers(last'.sent) ]_vars

\* C10 witness: one tick found a connection stale and removed it unpinged,
\* and pinged another
C10_Witness ==
  /\ last.op = "heartbeat"
  /\ Len(last.timedOut) = 1
  /\ last.timedOut[1] \in removed
  /\ Len(last.sent) = 1

(* ------------------------- heartbeat and time -------------------------- *)
\* how long connection i has been registered.  Nothing a peer does reaches
\* the registry (the stream is one-way), so this is also how long ago the
\* registry last heard of the peer
age(cs, i, t) == t - get(cs, i).connectedAt

\* C11: the idle timeout fires independently of the heartbeat's own pings:
\* after a heartbeat tick no connection is left registered whose peer has
\* been silent for longer than clientTimeout, writable stream or not
C11_IdleTimeoutIndependentOfPings ==
  last.op = "heartbeat"
    => \A i \in Range(keys(clients)) : age(clients, i, now) <= clientTimeout

\* the connections a heartbeat tick at time t finds registered and not stale
NonStale(cs, t) ==
  {i \in Range(keys(cs)) : ~(t - get(cs, i).lastPing > clientTimeout)}

\* C12: a heartbeat tick makes exactly one 'ping' write attempt on every
\* registered connection that is not stale; a connection whose attempt
\* failed is out of the registry when the tick ends, one whose attempt
\* succeeded is still registered, with lastPing the time of the tick
C12_PingEachNonStale ==
  [][ last'.op = "heartbeat"
        => /\ Range(last'.attempts) = NonStale(clients, now)
           /\ NoDuplicates(last'.attempts)
           /\ \A k \in 1..Len(last'.sent) :
                last'.sent[k][2] = formatSSEMessage(PingEvent(now)).text
           /\ \A i \in NonStale(clients, now) :
                IF i \in Receivers(last'.sent)
                  THEN /\ has(clients', i)
                       /\ get(clients', i).lastPing = now
                  ELSE ~has(clients', i) ]_vars

\* C12 witness: one tick, later than the registrations, pinged two
\* connections; the write failed on one, which is gone, and succeeded on the
\* other, which is registered with lastPing the time of the tick
C12_Witness ==
  /\ last.op = "heartbeat"
  /\ now > 0
  /\ Len(last.attempts) = 2
  /\ Len(last.sent) = 1
  /\ \E i \in Range(last.attempts) : i \in removed /\ ~has(clients, i)
  /\ \E i \in Receivers(last.sent) :
       has(clients, i) /\ get(clients, i).lastPing = now /\ get(clients, i).connectedAt < now

(* ------------------------------ draining ------------------------------- *)
\* cleanup() has run on the instance: nothing else clears the heartbeat timer
\* and nothing sets it again
CleanupHasRun == ~heartbeatInterval

\* C13: cleanup() makes, for every connection registered when it is called
\* and in registration order, one 'server-shutdown' write attempt and then
\* removes it, whether the write failed or not; when it returns the registry
\* is empty, no stream is open, the heartbeat timer is cancelled, and from
\* then on the timer stays cancelled and no heartbeat tick runs
C13_CleanupDrainsEverything ==
  [][ /\ last'.op \in {"cleanup", "shutdown"}
        => /\ last'.attempts = keys(clients)
           /\ last'.closes = keys(clients)
           /\ Receivers(last'.sent) =
                {i \in Range(keys(clients)) : canCloseOrEnqueue(controller[i])}
           /\ \A k \in 1..Len(last'.sent) :
                last'.sent[k][2] = formatSSEMessage(ShutdownEvent(now)).text
           /\ clients' = <<>>
           /\ \A i \in UUIDs : ~canCloseOrEnqueue(controller'[i])
           /\ ~heartbeatInterval'
      /\ CleanupHasRun => (~heartbeatInterval' /\ last'.op # "heartbeat") ]_vars

\* C13 witness: cleanup() met two connections, the write failed on one of
\* them, and both are gone
C13_Witness ==
  /\ last.op = "cleanup"
  /\ Len(last.attempts) = 2
  /\ Len(last.sent) = 1
  /\ Range(last.attempts) \subseteq removed
  /\ clients = <<>>
  /\ ~heartbeatInterval

\* C14: once cleanup() has run on the instance, by whichever path, every
\* addClient call on it throws and registers nothing
C14_AddClientFailsAfterCleanup ==
  (CleanupHasRun /\ last.op = "addClient")
    => (last.threw /\ ~has(clients, last.clientId))

(* ---------------------------- after removal ---------------------------- *)
\* C15: once removeClient(id) has completed, no operation writes to that
\* connection's stream any more: no sendToClient, sendToUser, broadcast,
\* heartbeat tick or welcome timer enqueues on it or picks it as a target,
\* and a sendToClient(id) or the welcome timer of id returns false without
\* throwing and leaves the registry and the streams as they were
C15_NoWriteAfterRemoval ==
  [][ /\ Receivers(last'.sent) \cap removed = {}
      /\ Range(last'.attempts) \cap removed = {}
      /\ (last'.op \in {"sendToClient", "sendToUser", "broadcast", "heartbeat", "welcome"})
           => ~last'.threw
      /\ (last'.op \in {"sendToClient", "welcome"} /\ last'.clientId \in removed)
           => /\ ~last'.ok
              /\ clients' = clients
              /\ controller' = controller ]_vars

\* C15 witness: a sendToClient for a removed id found nothing and answered
\* false while another connection was registered
C15_Witness ==
  /\ last.op = "sendToClient"
  /\ last.clientId \in removed
  /\ last.attempts = <<>>
  /\ ~last.ok
  /\ clients # <<>>

(* --------------------------- GET /api/sse ------------------------------ *)
\* C16: when the stream of a registered connection is cancelled or its
\* request is aborted, the handler removes the connection from the registry
\* and clears its keep-alive interval in that very step
C16_CancelOrAbortUnregisters ==
  last.op \in {"cancel", "abort"}
    => /\ ~has(clients, last.clientId)
       /\ last.clientId \notin keepAlive

(* ------------------------- the rate limiter ---------------------------- *)
\* the calls of source ip let through at the clock values a..b
RECURSIVE acceptedBetween(_, _, _)
acceptedBetween(ip, a, b) ==
  IF a > b THEN 0
  ELSE (IF a \in 0..RateHorizon THEN acceptedAt[ip][a] ELSE 0) + acceptedBetween(ip, a + 1, b)

\* the calls of ip let through in the RATE_WINDOW clock values from t on
Rolling(ip, t) == acceptedBetween(ip, t, t + RATE_WINDOW - 1)

\* C17 as stated: in no rolling window of RATE_WINDOW does the limiter let
\* more than RATE_LIMIT calls of one source through
C17_RollingWindowLimit ==
  \A ip \in IPs, t \in 0..RateHorizon : Rolling(ip, t) <= RATE_LIMIT

\* C17 amended: the limiter counts in fixed windows.  The entry of a source
\* counts exactly the calls let through since its window opened at
\* resetTime - RATE_WINDOW, never more than RATE_LIMIT of them; a rolling
\* window overlaps two fixed ones and holds at most twice RATE_LIMIT calls
C17_FixedWindowLimit ==
  \A ip \in IPs :
    /\ rateLimitMap[ip] # NoLimit
         => /\ rateLimitMap[ip].count <= RATE_LIMIT
            /\ rateLimitMap[ip].count =
                 acceptedBetween(ip, rateLimitMap[ip].resetTime - RATE_WINDOW,
                                 rateLimitMap[ip].resetTime - 1)
    /\ \A t \in 0..RateHorizon : Rolling(ip, t) <= 2 * RATE_LIMIT

\* C17 witness: a call was refused with the window's count at RATE_LIMIT
\* while a rolling window already held more than RATE_LIMIT accepted calls
C17_Witness ==
  /\ last.op = "POST"
  /\ last.status = 429
  /\ \E ip \in IPs :
       /\ rateLimitMap[ip].count = RATE_LIMIT
       /\ \E t \in 0..RateHorizon : Rolling(ip, t) > RATE_LIMIT

(* ------------------------------ queries -------------------------------- *)
\* C18: on an empty registry getStats() returns totalClients 0,
\* averageConnectionTime 0 and oldestConnection 0 (nothing is divided by
\* the zero length); on any other, totalClients is the number of registered
\* connections and oldestConnection is at least averageConnectionTime
C18_StatsTotalsAndAges ==
  last.op = "getStats"
    => /\ clients = <<>>
            => /\ last.stats.totalClients = 0
               /\ last.stats.averageConnectionTime = 0
               /\ last.stats.oldestConnection = 0
       /\ clients # <<>>
            => /\ last.stats.totalClients = Cardinality(Range(keys(clients)))
               /\ last.stats.oldestConnection >= last.stats.averageConnectionTime

\* C18 witness: getStats() on two connections of different ages, the oldest
\* older than the average
C18_Witness ==
  /\ last.op = "getStats"
  /\ Len(clients) = 2
  /\ clients[1].connectedAt # clients[2].connectedAt
  /\ last.stats.totalClients = 2
  /\ last.stats.oldestConnection > last.stats.averageConnectionTime
  /\ last.stats.averageConnectionTime > 0

\* C19: getClientsByUser(u) returns exactly the registered ids whose userId
\* is u, each once; getStats() counts as authenticatedClients the registered
\* connections that have a userId and as anonymousClients those that have
\* none, and the two add up to totalClients
C19_QueriesMatchRegistry ==
  /\ last.op = "getClientsByUser"
       => /\ Range(last.ids) =
               {i \in Range(keys(clients)) : get(clients, i).userId = last.userId}
          /\ NoDuplicates(last.ids)
  /\ last.op = "getStats"
       => /\ last.stats.authenticatedClients =
               Cardinality({i \in Range(keys(clients)) : get(clients, i).userId # NoUser})
          /\ last.stats.anonymousClients =
               Cardinality({i \in Range(keys(clients)) : get(clients, i).userId = NoUser})
          /\ last.stats.authenticatedClients + last.stats.anonymousClients
               = last.stats.totalClients

\* C19 witness: getClientsByUser(u) picked the one connection of u out of a
\* registry that also holds a connection of nobody, after a removal
C19_Witness ==
  /\ last.op = "getClientsByUser"
  /\ Len(last.ids) = 1
  /\ Len(clients) = 2
  /\ \E i \in Range(keys(clients)) : get(clients, i).userId = NoUser
  /\ removed # {}

(* ------------------------------ lastPing ------------------------------- *)
\* C20: with a clock that does not go back, the lastPing of a registered
\* connection never decreases: addClient sets it to the time of the
\* registration, every operation that enqueues a chunk on the connection
\* through sendToClient (heartbeat pings included) sets it to the time of
\* the call, and every other step leaves it as it was
C20_LastPingMonotone ==
  [][ \A i \in UUIDs :
        /\ (has(clients, i) /\ has(clients', i))
             => /\ get(clients', i).lastPing >= get(clients, i).lastPing
                /\ get(clients', i).lastPing =
                     IF i \in Receivers(last'.sent) THEN now
                     ELSE get(clients, i).lastPing
        /\ (~has(clients, i) /\ has(clients', i))
             => /\ last'.op = "addClient"
                /\ last'.clientId = i
                /\ get(clients', i).lastPing = now ]_vars

\* C20 witness: a sendToClient moved the lastPing of a connection forward
\* from its registration time and left that of another connection behind
C20_Witness ==
  /\ last.op = "sendToClient"
  /\ last.ok
  /\ get(clients, last.clientId).lastPing = now
  /\ get(clients, last.clientId).connectedAt < now
  /\ \E j \in Range(keys(clients)) : get(clients, j).lastPing < now

(* ------------------------- frame conditions ---------------------------- *)
\* C21: sendToClient(id, event) for an id the registry does not hold returns
\* false, throws nothing, writes to no stream and closes none, and leaves
\* the registry (its members and every lastPing) and the streams unchanged
C21_SendToUnregisteredIsNoOp ==
  [][ (last'.op = "sendToClient" /\ ~has(clients, last'.clientId))
        => /\ ~last'.ok
           /\ ~last'.threw
           /\ last'.sent = <<>>
           /\ last'.attempts = <<>>
           /\ last'.closes = <<>>
           /\ clients' = clients
           /\ controller' = controller ]_vars

\* C21 witness: a sendToClient for an id no addClient ever returned answered
\* false while a connection with a lastPing of an earlier time was registered
C21_Witness ==
  /\ last.op = "sendToClient"
  /\ last.clientId \notin issued
  /\ ~last.ok
  /\ \E i \in Range(keys(clients)) : get(clients, i).lastPing < now

\* C22: removeClient(id) on a registered id deletes the entry of id, and no
\* other, and returns true without throwing, whether close() closed the
\* stream or threw because it was closed already
C22_RemoveClientSwallowsCloseError ==
  [][ (last'.op = "removeClient" /\ has(clients, last'.clientId))
        => /\ last'.ok
           /\ ~last'.threw
           /\ last'.closes = <<last'.clientId>>
           /\ clients' = delete(clients, last'.clientId)
           /\ ~canCloseOrEnqueue(controller'[last'.clientId]) ]_vars

\* C22 witness: a removeClient whose close() threw deleted the entry and
\* returned true, leaving another connection registered
C22_Witness ==
  /\ last.op = "removeClient"
  /\ last.closeErrors = <<last.clientId>>
  /\ last.ok
  /\ last.clientId \in removed
  /\ ~has(clients, last.clientId)
  /\ clients # <<>>

(* --------------------------- welcome event ----------------------------- *)
\* C23: every successful addClient arms one 'connected' timer, for the new
\* id and for no id that ever had one; when it fires the event carries that
\* connection's own id and, if the connection is still registered and its
\* stream writable, is enqueued on that stream alone, otherwise on none; the
\* timer is then gone, so the event is written at most once per connection
C23_WelcomeOncePerConnection ==
  [][ /\ \A i \in welcome' \ welcome :
           /\ last'.op = "addClient" /\ ~last'.threw /\ last'.clientId = i
           /\ i \notin issued
      /\ (last'.op = "addClient" /\ ~last'.threw)
           => welcome' = welcome \cup {last'.clientId}
      /\ last'.op = "welcome"
           => LET i == last'.clientId
              IN /\ i \in welcome /\ i \notin welcome'
                 /\ last'.event.event = "connected"
                 /\ last'.event.data.kv[1] = <<"clientId", JStr(uuidString(i))>>
                 /\ last'.sent =
                      IF has(clients, i) /\ canCloseOrEnqueue(controller[i])
                        THEN << <<i, formatSSEMessage(last'.event).text>> >>
                        ELSE <<>> ]_vars

\* C23 witness: the timer of one of two registered connections fired and
\* its event went to that connection only
C23_Witness ==
  /\ last.op = "welcome"
  /\ Receivers(last.sent) = {last.clientId}
  /\ Len(last.sent) = 1
  /\ Len(clients) = 2

(* -------------------------- failure isolation -------------------------- *)
\* the connections of registry cs a fan-out call recorded in l targets, in
\* the registry's order
FanOutTargets(cs, l) ==
  SelectSeq(keys(cs),
            LAMBDA i : IF l.op = "broadcast" THEN i # l.clientId
                       ELSE get(cs, i).userId = l.userId)

\* C24: a broadcast or sendToUser never throws and is never cut short by a
\* failed write: every target is attempted, in order, those after a failing
\* one included; the connections whose write failed, and only those, are
\* evicted; those whose write succeeded and those not targeted stay
C24_FailureDoesNotAbortFanOut ==
  [][ last'.op \in {"broadcast", "sendToUser"}
        => LET targets == FanOutTargets(clients, last')
               failed == {i \in Range(targets) : WriteFails(controller[i], last'.event)}
           IN /\ ~last'.threw
              /\ last'.attempts = targets
              /\ Receivers(last'.sent) = Range(targets) \ failed
              /\ Range(keys(clients')) = Range(keys(clients)) \ failed
              /\ removed' = removed \cup failed ]_vars

\* C24 witness: a broadcast whose first write failed went on to the second
\* connection; the first is evicted, the second written to and registered
C24_Witness ==
  /\ last.op = "broadcast"
  /\ Len(last.attempts) = 2
  /\ last.attempts[1] \in removed
  /\ Receivers(last.sent) = {last.attempts[2]}
  /\ keys(clients) = <<last.attempts[2]>>

(* ----------------------- per-connection ordering ----------------------- *)
\* the event the sendToClient calls of the step recorded in l carry
EventOfStep(l, t) == IF l.op = "heartbeat" THEN PingEvent(t) ELSE l.event

\* the chunks of a `sent` log enqueued on the stream of connection i
ChunksOf(sent, i) == SelectSeq(sent, LAMBDA c : c[1] = i)

\* C25: what the service writes to a connection's stream is, call by call,
\* what its successful sendToClient invocations for that connection carry:
\* every step makes at most one sendToClient call per connection, a call
\* that succeeds enqueues the text of its own event on that stream within
\* the call, and nothing else is ever enqueued (no chunk is written twice,
\* left for a later step or written by a failed call)
C25_StreamIsSequenceOfSuccessfulSends ==
  [][ /\ NoDuplicates(last'.attempts)
      /\ \A i \in UUIDs :
           ChunksOf(last'.sent, i) =
             IF /\ i \in Range(last'.attempts)
                /\ ~WriteFails(controller[i], EventOfStep(last', now))
               THEN << <<i, formatSSEMessage(EventOfStep(last', now)).text>> >>
               ELSE <<>> ]_vars

\* C25 witness: a sendToClient wrote a second event on a stream that had
\* its 'connected' event written before
C25_Witness ==
  /\ last.op = "sendToClient"
  /\ last.ok
  /\ last.sent = << <<last.clientId, formatSSEMessage(last.event).text>> >>
  /\ last.clientId \notin welcome
  /\ last.clientId \notin removed

(* --------------------------- input validation -------------------------- *)
ControlOps == {"POST", "trpc.sendToClient", "trpc.sendToUser", "trpc.broadcast"}

\* the request recorded in l has an empty or over-long event name, or a
\* malformed id in an id field its endpoint reads
Malformed(l) ==
  \/ Len(l.input.event) = 0
  \/ Len(l.input.event) > 50
  \/ l.op \in {"POST", "trpc.sendToClient"} /\ l.input.targetClientId = NotAUuid
  \/ l.op \in {"POST", "trpc.broadcast"} /\ l.input.excludeClientId = NotAUuid

\* C26: a request to the control API whose event name is empty or longer
\* than 50 characters, or whose target or exclude id is not a UUID, is
\* answered with an error and reaches no operation of the service: nothing
\* is written to any stream, nothing closed, the registry is unchanged
C26_MalformedInputRejected ==
  [][ (last'.op \in ControlOps /\ Malformed(last'))
        => /\ last'.status \in {400, 429}
           /\ last'.attempts = <<>>
           /\ last'.sent = <<>>
           /\ last'.closes = <<>>
           /\ last'.count = 0
           /\ clients' = clients
           /\ controller' = controller
           /\ removed' = removed ]_vars

\* C26 witness: a POST whose event name has 51 characters was answered 400
\* with two connections registered
C26_Witness ==
  /\ last.op = "POST"
  /\ last.status = 400
  /\ Len(last.input.event) = 51
  /\ Len(clients) = 2

(* ------------------------------ snapshot ------------------------------- *)
\* how many sendToClient calls of the log `attempts` were for connection i
TimesAttempted(attempts, i) == Cardinality({k \in 1..Len(attempts) : attempts[k] = i})

\* C27: a sendToUser or broadcast writes only to connections registered when
\* the call started, never to an id registered later, and an eviction in
\* the middle of the loop makes it neither pass over a target nor visit one
\* twice: every target of the registry as it was at the start is tried once
C27_FanOutOverRegistryAtCall ==
  [][ last'.op \in {"broadcast", "sendToUser"}
        => LET targets == FanOutTargets(clients, last')
           IN /\ Range(last'.attempts) \subseteq Range(keys(clients))
              /\ Range(last'.attempts) \cap (UUIDs \ issued) = {}
              /\ \A i \in UUIDs :
                   TimesAttempted(last'.attempts, i) =
                     IF i \in Range(targets) THEN 1 ELSE 0 ]_vars

\* C27 witness: a sendToUser evicted its first target and still wrote to
\* its second, with an id left that a later registration can take
C27_Witness ==
  /\ last.op = "sendToUser"
  /\ Len(last.attempts) = 2
  /\ last.attempts[1] \in removed
  /\ Receivers(last.sent) = {last.attempts[2]}
  /\ UUIDs \ issued # {}

(* ------------------------------ keep-alive ----------------------------- *)
\* C28: a keep-alive comment changes nothing of the registry: no member, no
\* lastPing, no stream state; the heartbeat therefore still removes every
\* connection whose lastPing is older than clientTimeout, however many
\* keep-alive comments it has been written since
C28_KeepAliveLeavesRegistryAlone ==
  [][ /\ last'.op = "keepAlive"
           => /\ clients' = clients
              /\ controller' = controller
              /\ removed' = removed
              /\ Receivers(last'.sent) \subseteq {last'.clientId}
              /\ last'.attempts = <<>>
      /\ last'.op = "heartbeat"
           => \A i \in Range(keys(clients)) :
                (now - get(clients, i).lastPing > clientTimeout) => ~has(clients', i)
    ]_vars

\* C28 witness: a keep-alive comment was written to a connection whose
\* lastPing was already older than clientTimeout, and still is
C28_Witness ==
  /\ last.op = "keepAlive"
  /\ last.sent = << <<last.clientId, ": keep-alive\n\n">> >>
  /\ has(clients, last.clientId)
  /\ now - get(clients, last.clientId).lastPing > clientTimeout

(* --------------------------- useSSE: actions --------------------------- *)
\* whether a callback of connection c still acts: mounted and not superseded
Current(h, c) == h.mountedRef /\ c = h.connectionIdRef

\* the timers a hook can have pending, by callback
Timers(kind) ==
  {Timer(kind, c, a) : c \in 0..MaxConnections, a \in 0..maxReconnectAttempts}

\* a run creates EventSources up to MaxConnections
CanConnect == hook.connectionIdRef < MaxConnections

\* the mount effect's initTimer fires, 100 ms after mount: connect() of the
\* first render
InitTimer ==
  /\ CanConnect
  /\ Timer("init", 0, 0) \in hook.timers
  /\ LET h == Later([hook EXCEPT !.timers = @ \ {Timer("init", 0, 0)}])
     IN  hook' = IF h.mountedRef THEN hookConnect(h, 0) ELSE h
  /\ UNCHANGED <<serverVars, limiterVars>>

\* setupEventListeners, 100 ms after connect(): the EventSource gets one
\* listener per system name and per name that has handlers at this moment
SetupEventListeners(c) ==
  /\ Timer("setup", c, 0) \in hook.timers
  /\ LET h == [hook EXCEPT !.timers = @ \ {Timer("setup", c, 0)}]
     IN  hook' = IF Current(h, c)
                   THEN [h EXCEPT !.listeners[c] =
                           systemEvents \cup {e \in HookEvents : h.handlersRef[e]}]
                   ELSE h
  /\ UNCHANGED <<serverVars, limiterVars>>

\* EventSource.onopen of connection c
OnOpen(c) ==
  /\ hook.readyState[c] = "connecting"
  /\ hook' = IF Current(hook, c)
               THEN [hook EXCEPT !.readyState[c] = "open", !.connected = TRUE,
                                 !.reconnectAttempts = 0,
                                 !.isConnectingRef = FALSE, !.scheduled = 0]
               ELSE [hook EXCEPT !.readyState[c] = "closed"]
  /\ UNCHANGED <<serverVars, limiterVars>>

\* EventSource.onerror of connection c: the connection is given up and, while
\* the reconnectAttempts of this connection's closure is below the maximum,
\* a reconnect timer is set; an EventSource whose handler returns early is
\* left to the browser, which retries it or gives it up (rs)
OnError(c, rs) ==
  /\ hook.readyState[c] \in {"connecting", "open"}
  /\ hook' =
       IF ~Current(hook, c)
         THEN [hook EXCEPT !.readyState[c] = rs]
         ELSE LET h == [hook EXCEPT !.connected = FALSE,
                                    !.isConnectingRef = FALSE,
                                    !.eventSourceRef = IF @ = c THEN 0 ELSE @,
                                    !.readyState[c] = "closed"]
                  reconnectAttempts == h.captured[c]
                  t == Timer("reconnect", c, reconnectAttempts)
              IN  IF reconnectAttempts < maxReconnectAttempts /\ h.mountedRef
                    THEN [h EXCEPT !.reconnectAttempts = reconnectAttempts + 1,
                                   !.timers = @ \cup {t},
                                   !.reconnectTimeoutRef = t,
                                   !.scheduled = @ + 1]
                    ELSE h
  /\ UNCHANGED <<serverVars, limiterVars>>

\* the reconnect timer set by connection c's onerror fires: connect() of the
\* same closure
ReconnectTimer(t) ==
  /\ CanConnect
  /\ t \in hook.timers
  /\ LET h == Later([hook EXCEPT !.timers = @ \ {t}])
     IN  hook' = IF Current(h, t.cid) THEN hookConnect(h, t.attempts) ELSE h
  /\ UNCHANGED <<serverVars, limiterVars>>

\* an event named e arrives on connection c: the listener attached for e, if
\* there is one, records the client id of a 'connected' event and calls the
\* handlers registered for e
Receive(c, e) ==
  /\ hook.readyState[c] = "open"
  /\ LET listened == e \in hook.listeners[c] /\ Current(hook, c)
     IN  hook' = [hook EXCEPT
                    !.clientId = IF listened /\ e = "connected" THEN TRUE ELSE @,
                    !.delivery = [cid |-> c, event |-> e, listened |-> listened,
                                  invoked |-> listened /\ hook.handlersRef[e]]]
  /\ UNCHANGED <<serverVars, limiterVars>>

\* addEventListener(e, handler) of the hook
AddEventListener(e) ==
  /\ ~hook.handlersRef[e]
  /\ hook' = [hook EXCEPT !.handlersRef[e] = TRUE, !.delivery = NoDelivery]
  /\ UNCHANGED <<serverVars, limiterVars>>

\* removeEventListener(e, handler) of the hook
RemoveEventListener(e) ==
  /\ hook.handlersRef[e]
  /\ hook' = [hook EXCEPT !.handlersRef[e] = FALSE, !.delivery = NoDelivery]
  /\ UNCHANGED <<serverVars, limiterVars>>

\* reconnect() of the hook, as returned by the latest render: the counter is
\* reset, the connection dropped, and 100 ms later connect() of that render
\* runs, whose closure holds the reconnectAttempts of before the reset
ReconnectManually ==
  /\ LET h == hookCleanup([hook EXCEPT !.reconnectAttempts = 0])
     IN  hook' = Later([h EXCEPT !.timers = @ \cup {Timer("manual", 0, hook.reconnectAttempts)},
                                 !.scheduled = 0])
  /\ UNCHANGED <<serverVars, limiterVars>>

\* the 100 ms timer of reconnect() fires
ManualTimer(t) ==
  /\ CanConnect
  /\ t \in hook.timers
  /\ LET h == Later([hook EXCEPT !.timers = @ \ {t}])
     IN  hook' = IF h.mountedRef THEN hookConnect(h, t.attempts) ELSE h
  /\ UNCHANGED <<serverVars, limiterVars>>

\* visibilitychange to visible, handled by the latest render's effect: when
\* disconnected and idle, connect() of that render runs 500 ms later
VisibilityChange ==
  /\ hook.rendered
  /\ hook' = IF /\ ~hook.connected /\ hook.mountedRef
                /\ hook.eventSourceRef = 0 /\ ~hook.isConnectingRef
               THEN [hook EXCEPT !.timers =
                       @ \cup {Timer("visible", 0, hook.reconnectAttempts)}]
               ELSE Later(hook)
  /\ UNCHANGED <<serverVars, limiterVars>>

\* the 500 ms timer of the visibility handler fires
VisibleTimer(t) ==
  /\ CanConnect
  /\ t \in hook.timers
  /\ hook' = hookConnect(Later([hook EXCEPT !.timers = @ \ {t}]), t.attempts)
  /\ UNCHANGED <<serverVars, limiterVars>>

\* beforeunload, handled by the latest render's effect: cleanup()
BeforeUnload ==
  /\ hook.rendered
  /\ hook' = Later(hookCleanup(hook))
  /\ UNCHANGED <<serverVars, limiterVars>>

\* close() of the hook
Close ==
  /\ hook' = hookCleanup([hook EXCEPT !.mountedRef = FALSE,
                                      !.closed = IF @ = 0 THEN 1 ELSE 2])
  /\ UNCHANGED <<serverVars, limiterVars>>

\* the component unmounts: the mount effect's cleanup
Unmount ==
  /\ hook.rendered
  /\ hook' = hookCleanup([hook EXCEPT !.timers = @ \ {Timer("init", 0, 0)},
                                      !.mountedRef = FALSE,
                                      !.rendered = FALSE,
                                      !.closed = IF @ = 0 THEN 1 ELSE 2])
  /\ UNCHANGED <<serverVars, limiterVars>>

\* the hook's connections and reconnections: the timers, the EventSource's
\* open and error, reconnect(), the visibility handler, close() and unmount
NextReconnect ==
  \/ InitTimer
  \/ \E c \in 1..MaxConnections : OnOpen(c)
  \/ \E c \in 1..MaxConnections, rs \in {"connecting", "closed"} : OnError(c, rs)
  \/ \E t \in Timers("reconnect") : ReconnectTimer(t)
  \/ ReconnectManually
  \/ \E t \in Timers("manual") : ManualTimer(t)
  \/ VisibilityChange
  \/ \E t \in Timers("visible") : VisibleTimer(t)
  \/ BeforeUnload
  \/ Close
  \/ Unmount

SpecReconnect == Init /\ [][NextReconnect]_vars

\* the hook's handlers: connections that open, fail and are reconnected, the
\* events received on them, and the handlers registered and removed meanwhile
NextHandlers ==
  \/ InitTimer
  \/ \E c \in 1..MaxConnections : SetupEventListeners(c)
  \/ \E c \in 1..MaxConnections : OnOpen(c)
  \/ \E c \in 1..MaxConnections, rs \in {"connecting", "closed"} : OnError(c, rs)
  \/ \E t \in Timers("reconnect") : ReconnectTimer(t)
  \/ \E c \in 1..MaxConnections, e \in HookEvents : Receive(c, e)
  \/ \E e \in HookEvents : AddEventListener(e)
  \/ \E e \in HookEvents : RemoveEventListener(e)

SpecHandlers == Init /\ [][NextHandlers]_vars

(* ------------------------------- C29 ----------------------------------- *)
\* C29: counting from the last successful open or manual reconnect, the hook
\* schedules at most maxReconnectAttempts automatic reconnections after
\* consecutive connection errors, and sets no reconnect timer once that
\* number is reached.
C29_ReconnectsAtMostMaxAttempts ==
  hook.scheduled <= maxReconnectAttempts

(* ------------------------------- C30 ----------------------------------- *)
\* C30: a handler registered with addEventListener(E, h) is invoked for every
\* event named E received afterwards on the current connection, until it is
\* removed, whether it was registered before or after the connection opened
\* and whether E is a built-in name or not.
C30_RegisteredHandlerIsInvoked ==
  ( /\ hook.delivery.cid # 0
    /\ hook.delivery.cid = hook.connectionIdRef
    /\ hook.mountedRef
    /\ hook.handlersRef[hook.delivery.event] )
  => hook.delivery.invoked

(* ------------------------------- C31 ----------------------------------- *)
\* an EventSource of the hook that is connecting or open
Live(h) == {c \in 1..MaxConnections : h.readyState[c] \in {"connecting", "open"}}

\* C31 (amended): after close() or an unmount the hook never creates an
\* EventSource: the reconnect timer held in reconnectTimeoutRef is cancelled,
\* the current EventSource is closed, and no later timer (an older reconnect
\* timer that is no longer tracked included), error callback, visibility
\* change or reconnect() call opens a connection.
C31_NoConnectionAfterClose ==
  [][ /\ hook.closed # 0 =>
           /\ hook'.connectionIdRef = hook.connectionIdRef
           /\ hook'.readyState = hook.readyState
      /\ hook'.closed # 0 =>
           /\ hook'.eventSourceRef = 0
           /\ Live(hook') = {}
           /\ hook'.reconnectTimeoutRef = NoTimer
           /\ hook'.reconnectTimeoutRef \notin hook'.timers ]_vars

\* close() came while a connection was open, and a timer, a reconnect() or a
\* visibility change has run since
C31_Witness ==
  /\ hook.closed = 2
  /\ hook.connectionIdRef >= 1
  /\ \E a \in 0..maxReconnectAttempts : Timer("manual", 0, a) \in hook.timers

\* C31 as stated: once close() or an unmount has run, no reconnect timer is
\* pending and no EventSource is left connecting or open
C31_NoReconnectTimerAfterClose ==
  hook.closed # 0 =>
    /\ hook.timers \cap Timers("reconnect") = {}
    /\ hook.eventSourceRef = 0
    /\ Live(hook) = {}

(* ------------------------------- C32 ----------------------------------- *)
\* the hook's connections under every way of starting one: the timers, the
\* listener setup, the EventSource's open and error, reconnect() and the
\* visibility handler
NextSupersede ==
  \/ InitTimer
  \/ \E c \in 1..MaxConnections : SetupEventListeners(c)
  \/ \E c \in 1..MaxConnections : OnOpen(c)
  \/ \E c \in 1..MaxConnections, rs \in {"connecting", "closed"} : OnError(c, rs)
  \/ \E t \in Timers("reconnect") : ReconnectTimer(t)
  \/ ReconnectManually
  \/ \E t \in Timers("manual") : ManualTimer(t)
  \/ VisibilityChange
  \/ \E t \in Timers("visible") : VisibleTimer(t)

SpecSupersede == Init /\ [][NextSupersede]_vars

\* the refs and the React state of the hook
HookState(h) ==
  <<h.mountedRef, h.isConnectingRef, h.connectionIdRef, h.eventSourceRef,
    h.reconnectTimeoutRef, h.handlersRef, h.connected, h.clientId,
    h.reconnectAttempts>>

\* a step of one of connection c's callbacks: onopen, onerror, its listener
\* setup, its reconnect timer, one of its event listeners
CallbackOf(c) ==
  \/ OnOpen(c)
  \/ \E rs \in {"connecting", "closed"} : OnError(c, rs)
  \/ SetupEventListeners(c)
  \/ \E a \in 0..maxReconnectAttempts : ReconnectTimer(Timer("reconnect", c, a))
  \/ \E e \in HookEvents : Receive(c, e)

\* C32: the hook has at most one EventSource connecting or open at any time;
\* no connection is created while one exists or is being established; and a
\* callback of a superseded connection changes no ref and no state of the hook.
C32_AtMostOneConnection ==
  [][ /\ Cardinality(Live(hook')) <= 1
      /\ Live(hook') \subseteq {hook'.eventSourceRef}
      /\ (hook.eventSourceRef # 0 \/ hook.isConnectingRef)
           => hook'.connectionIdRef = hook.connectionIdRef
      /\ \A c \in 1..MaxConnections :
           (c # hook.connectionIdRef /\ CallbackOf(c))
             => HookState(hook') = HookState(hook) ]_vars

\* connection c was superseded before its listener setup ran (its timer is
\* gone and it got no listeners), and the connection that replaced it is open
C32_Witness ==
  /\ hook.connected
  /\ Cardinality(Live(hook)) = 1
  /\ \E c \in 1..MaxConnections :
       /\ c < hook.connectionIdRef
       /\ hook.readyState[c] = "closed"
       /\ Timer("setup", c, 0) \notin hook.timers
       /\ hook.listeners[c] = {}

(* ------------------------------- C33 ----------------------------------- *)
\* how many requests GET /api/sse serves in a run of the keep-alive intervals
MaxStreams == 2

\* every way a connection leaves the registry while its keep-alive interval
\* runs: abort, a failed write after the peer went away, staleness, drain
NextInterval ==
  \/ nextUUID <= MaxStreams /\ GET(NoUser)
  \/ \E i \in UUIDs : WelcomeTimer(i)
  \/ \E i \in UUIDs : Abort(i)
  \/ \E i \in UUIDs : Cancel(i)
  \/ \E i \in UUIDs : KeepAliveTimer(i)
  \/ Heartbeat
  \/ Cleanup
  \/ Tick(MaxTime)

SpecInterval == Init /\ [][NextInterval]_vars

\* the keep-alive interval of a connection that has left the registry
Orphan(i) == i \in removed /\ i \in keepAlive

\* C33: once a connection has been removed from the registry, its stream
\* takes no more writes, and the first firing of its keep-alive interval after
\* the removal fails on it and clears the interval: the interval, which fires
\* every period, is gone within one period of the removal.
C33_KeepAliveStopsAfterRemoval ==
  [][ \A i \in UUIDs :
        /\ Orphan(i) => ~canCloseOrEnqueue(controller[i])
        /\ (Orphan(i) /\ last'.op = "keepAlive" /\ last'.clientId = i)
             => (last'.threw /\ i \notin keepAlive') ]_vars

\* a keep-alive write has just failed on a connection the heartbeat removed,
\* and its interval is cleared
C33_Witness ==
  /\ last.op = "keepAlive"
  /\ last.threw
  /\ last.clientId \in removed
  /\ last.clientId \notin keepAlive
  /\ last.clientId \in listening

(* ------------------------------- C34 ----------------------------------- *)
\* how many times the operation just run called close() on connection i
ClosesOf(r, i) == Len(SelectSeq(r.closes, LAMBDA c : c = i))

\* C34: the service calls close() on a connection's stream at most once over
\* the connection's lifetime: an operation calls it at most once, and never
\* for a connection an earlier operation has already removed.
C34_CloseAtMostOnce ==
  [][ \A i \in UUIDs :
        ClosesOf(last', i) <= (IF i \in removed THEN 0 ELSE 1) ]_vars

\* a heartbeat tick whose ping failed on a connection: sendToClient removed
\* it, the tick's removal pass found it in staleClients, close() ran once
C34_Witness ==
  /\ last.op = "heartbeat"
  /\ last.timedOut = <<>>
  /\ \E i \in UUIDs :
       /\ ClosesOf(last, i) = 1
       /\ Len(SelectSeq(last.staleClients, LAMBDA c : c = i)) = 1
       /\ i \in removed

(* ------------------------------- C35 ----------------------------------- *)
\* C35: the tRPC procedures report what the service returned: sendToClient
\* answers success exactly when the service's sendToClient returned true;
\* sendToUser and broadcast answer the service's count as sentCount, and
\* success exactly when it is above 0.
C35_TrpcReportsServiceResult ==
  [][ last'.status = 200 =>
        /\ last'.op = "trpc.sendToClient" =>
             /\ last'.ok = sendToClient(Machine, last'.input.targetClientId,
                                        last'.event, now).ok
             /\ last'.ok <=> Len(last'.sent) = 1
        /\ last'.op = "trpc.sendToUser" =>
             /\ last'.count = sendToUser(Machine, last'.userId, last'.event, now).count
             /\ last'.count = Len(last'.sent)
             /\ last'.ok <=> last'.count > 0
        /\ last'.op = "trpc.broadcast" =>
             /\ last'.count = broadcast(Machine, last'.event,
                                        last'.input.excludeClientId, now).count
             /\ last'.count = Len(last'.sent)
             /\ last'.ok <=> last'.count > 0 ]_vars

\* sendToUser for a user with no connection, while others are connected:
\* sentCount 0 and success false
C35_Witness ==
  /\ last.op = "trpc.sendToUser"
  /\ last.status = 200
  /\ last.count = 0
  /\ ~last.ok
  /\ Len(clients) >= 1

(* ------------------------------- C36 ----------------------------------- *)
\* registrations, writes and removals as time passes: what the registry's
\* entries go through between addClient and removeClient
NextIdentity ==
  \/ \E u \in RegistryUsers : GET(u)
  \/ \E i \in UUIDs : WelcomeTimer(i)
  \/ \E i \in UUIDs : RemoveClient(i)
  \/ \E i \in UUIDs, e \in Events : SendToClient(i, e)
  \/ Heartbeat
  \/ Tick(MaxTime)

SpecIdentity == Init /\ [][NextIdentity]_vars

\* an entry without its lastPing
Fixed(c) == [id |-> c.id, userId |-> c.userId, connectedAt |-> c.connectedAt]

\* C36: between its registration and its removal a connection's id, userId
\* and connectedAt never change and lastPing is the only field written; the
\* registry holds one entry per id, a new entry is stored under the id just
\* issued with the current time as connectedAt, and a removed id never returns.
C36_IdentityFieldsImmutable ==
  [][ /\ \A k \in 1..Len(clients') :
           LET c == clients'[k]
           IN  IF has(clients, c.id)
                 THEN Fixed(c) = Fixed(get(clients, c.id))
                 ELSE /\ c.id = nextUUID
                      /\ c.id \notin issued \cup removed
                      /\ c.connectedAt = now
      /\ Cardinality({clients'[k].id : k \in 1..Len(clients')}) = Len(clients') ]_vars

\* a connection written to after the clock moved: its lastPing is past its
\* connectedAt, which still is its registration time
C36_Witness ==
  /\ last.op = "sendToClient"
  /\ last.ok
  /\ has(clients, last.clientId)
  /\ get(clients, last.clientId).lastPing > get(clients, last.clientId).connectedAt

====
